---- MODULE Spec2Model ----
(***************************************************************************)
(* Labelled functions and pipelines of labelled functions.                 *)
(*                                                                         *)
(* A labelled callable has a name, input names, output names (possibly     *)
(* still unknown), default values and a "has never been run" flag          *)
(* (labelled_functions/abstract.py).  A LabelledPipeline is built from an  *)
(* ordered list of labelled callables; its inputs, outputs and default map *)
(* are resolved once by LabelledPipeline._graph                            *)
(* (labelled_functions/pipeline.py).  labelled_functions/compose.py holds  *)
(* a second pipeline constructor with its own resolution loop.             *)
(***************************************************************************)
EXTENDS Integers, Sequences, FiniteSets, TLC

(***************************************************************************)
(* Bounds of the model.                                                    *)
(***************************************************************************)
MaxFuncs == 3

Names == {"x", "y", "z"}

None == "None"

EmptyMap == [n \in {} |-> 0]

Range(s) == {s[i] : i \in 1..Len(s)}

(* the dict merge of a and b, b winning *)
Merge(a, b) ==
    [n \in (DOMAIN a) \cup (DOMAIN b) |-> IF n \in DOMAIN b THEN b[n] ELSE a[n]]

Restrict(m, S) == [n \in (DOMAIN m) \cap S |-> m[n]]

(***************************************************************************)
(* The labelled functions the step lists are drawn from.  Each entry is a  *)
(* labelled callable as AbstractLabelledCallable.__init__ leaves it:      *)
(* name, input_names, output_names (known = FALSE stands for Unknown),     *)
(* default_values with keys among the inputs, and _has_never_been_run.     *)
(* shapes are the result shapes the wrapped function can return, fixed     *)
(* the values a partial application has closed the function over.          *)
(***************************************************************************)
Tuple(k) == [kind |-> "tuple", arity |-> k, keys |-> {}]
Scalar == [kind |-> "scalar", arity |-> 1, keys |-> {}]
Dict(K) == [kind |-> "dict", arity |-> 0, keys |-> K]
NoneResult == [kind |-> "none", arity |-> 0, keys |-> {}]

LF(id, nm, ins, known, outs, dv, sh) ==
    [fn |-> id, name |-> nm, input_names |-> ins, known |-> known,
     output_names |-> outs, default_values |-> dv, never_run |-> TRUE,
     shapes |-> sh, fixed |-> EmptyMap]

Pool ==
    << LF(1, "let", <<>>, TRUE, <<"x">>, EmptyMap, {Scalar}),
       LF(2, "f", <<"x">>, TRUE, <<"y">>, EmptyMap, {Scalar}),
       LF(3, "g", <<"y", "z">>, TRUE, <<"z">>, [n \in {"z"} |-> 3], {Scalar}),
       LF(4, "f", <<"x", "z">>, TRUE, <<"y">>,
          [n \in {"x", "z"} |-> IF n = "x" THEN 1 ELSE 4], {Scalar}),
       LF(5, "u", <<"z">>, FALSE, <<>>, EmptyMap, {Scalar, Tuple(2)}),
       LF(6, "v", <<"x">>, TRUE, <<"y", "z">>, EmptyMap,
          {Tuple(2), Tuple(3), Dict({"z"})}) >>

PoolIds == 1..Len(Pool)

(* the largest number of inputs of a function *)
MaxArgs == CHOOSE m \in 0..Cardinality(Names) :
              /\ \A p \in PoolIds : Len(Pool[p].input_names) <= m
              /\ \E p \in PoolIds : Len(Pool[p].input_names) = m

VARIABLES
    objs,      \* the labelled functions: id -> fields of the object
    funcs,     \* the step list handed to a pipeline constructor (ids)
    rio,       \* return_intermediate_outputs / keep_intermediate_outputs
    dvArg,     \* the default_values argument of the constructor
    impl,      \* "none", "pipeline" (pipeline.py), "compose" (compose.py), "failed"
    pipe,      \* the constructed pipeline object
    target,    \* the callable of the current call: 0 the pipeline, else a function id
    again,     \* how the current direct call was made, and the error of the
               \* failed call it repeats
    made,      \* the callable returned by the last derived-variant operation
    concurrent, \* the frame of a second invocation of the pipeline, running
               \* while the first one runs
    pc,        \* position of the call: "idle", "running", "done", "error"
    kw,        \* keyword arguments supplied by the caller of the running call
    namespace, \* the namespace threaded through the steps
    k,         \* index of the next step to apply
    trace,     \* invocations of wrapped functions during the call
    result,    \* mapping returned by the call
    err        \* error raised by the call

vars == <<objs, funcs, rio, dvArg, impl, pipe, made, concurrent, target, again, pc, kw,
          namespace, k, trace, result, err>>

callVars == <<target, again, pc, kw, namespace, k, trace, result, err>>

opVars == <<made, concurrent>>


(***************************************************************************)
(* Values.  A wrapped function is pure: its result is determined by its    *)
(* identity, the values it receives and the position of the output.        *)
(***************************************************************************)
RECURSIVE SumVals(_)
SumVals(m) ==
    IF DOMAIN m = {} THEN 0
    ELSE LET n == CHOOSE a \in DOMAIN m : TRUE
         IN  m[n] + SumVals(Restrict(m, (DOMAIN m) \ {n}))

NameIdx(n) == CASE n = "x" -> 1 [] n = "y" -> 2 [] n = "z" -> 3 [] OTHER -> 4

Value(fn, kwargs, i) == 10 * fn + i + SumVals(kwargs)

(* the call of self.function: a result of shape sh *)
Invoke(f, kwargs, sh) ==
    [kind |-> sh.kind,
     vals |-> [i \in 1..sh.arity |-> Value(f.fn, Merge(f.fixed, kwargs), i)],
     map |-> [n \in sh.keys |-> Value(f.fn, Merge(f.fixed, kwargs), NameIdx(n))]]

RECURSIVE SetToSeq(_)
SetToSeq(S) ==
    IF S = {} THEN <<>>
    ELSE LET n == CHOOSE a \in S : \A b \in S : NameIdx(a) <= NameIdx(b)
         IN  <<n>> \o SetToSeq(S \ {n})

NoErr == [kind |-> "", names |-> {}]
Error(kind, names) == [kind |-> kind, names |-> names]

(* _preprocess_inputs with the defaults overriding the keyword arguments *)
PreprocessInputsDefaultsWin(input_names, default_values, positional, kwargs) ==
    LET actual_default_values ==
            Restrict(default_values, (DOMAIN default_values) \ positional)
        merged == Merge(kwargs, actual_default_values)
        passed == positional \cup DOMAIN merged
        missing_inputs == input_names \ passed
        superfluous_inputs == passed \ input_names
    IN  IF missing_inputs # {}
        THEN [err |-> Error("missing", missing_inputs), kwargs |-> merged]
        ELSE IF superfluous_inputs # {}
        THEN [err |-> Error("unexpected", superfluous_inputs), kwargs |-> merged]
        ELSE [err |-> NoErr, kwargs |-> merged]

(* _preprocess_inputs without the check of superfluous inputs *)
PreprocessInputsNoSuperfluous(input_names, default_values, positional, kwargs) ==
    LET actual_default_values ==
            Restrict(default_values, (DOMAIN default_values) \ positional)
        merged == Merge(actual_default_values, kwargs)
        missing_inputs == input_names \ (positional \cup DOMAIN merged)
    IN  IF missing_inputs # {}
        THEN [err |-> Error("missing", missing_inputs), kwargs |-> merged]
        ELSE [err |-> NoErr, kwargs |-> merged]

(* _preprocess_inputs without the check of missing inputs *)
PreprocessInputsNoMissing(input_names, default_values, positional, kwargs) ==
    LET actual_default_values ==
            Restrict(default_values, (DOMAIN default_values) \ positional)
        merged == Merge(actual_default_values, kwargs)
        superfluous_inputs == (positional \cup DOMAIN merged) \ input_names
    IN  IF superfluous_inputs # {}
        THEN [err |-> Error("unexpected", superfluous_inputs), kwargs |-> merged]
        ELSE [err |-> NoErr, kwargs |-> merged]

(***************************************************************************)
(* AbstractLabelledCallable._preprocess_inputs (abstract.py:67-88).        *)
(* positional: the names passed as positional arguments.                   *)
(***************************************************************************)
PreprocessInputs(input_names, default_values, positional, kwargs) ==
    LET actual_default_values ==
            Restrict(default_values, (DOMAIN default_values) \ positional)
        merged == Merge(actual_default_values, kwargs)
        passed == positional \cup DOMAIN merged
        required == input_names
        missing_inputs == required \ passed
        superfluous_inputs == passed \ required
    IN  IF missing_inputs # {}
        THEN [err |-> Error("missing", missing_inputs), kwargs |-> merged]
        ELSE IF superfluous_inputs # {}
        THEN [err |-> Error("unexpected", superfluous_inputs), kwargs |-> merged]
        ELSE [err |-> NoErr, kwargs |-> merged]

(* _guess_output_names_from numbering the elements from one *)
GuessOutputNamesFromOne(f, r) ==
    IF r.kind = "none" THEN <<>>
    ELSE IF r.kind = "tuple" /\ Len(r.vals) > 1
    THEN [i \in 1..Len(r.vals) |-> f.name \o "[" \o ToString(i) \o "]"]
    ELSE IF r.kind = "dict" THEN SetToSeq(DOMAIN r.map)
    ELSE <<f.name>>

(* AbstractLabelledCallable._guess_output_names_from (abstract.py:90-99) *)
GuessOutputNames(f, r) ==
    IF r.kind = "none" THEN <<>>
    ELSE IF r.kind = "tuple" /\ Len(r.vals) > 1
    THEN [i \in 1..Len(r.vals) |-> f.name \o "[" \o ToString(i - 1) \o "]"]
    ELSE IF r.kind = "dict" THEN SetToSeq(DOMAIN r.map)
    ELSE <<f.name>>

(* AbstractLabelledCallable._output_as_dict (abstract.py:101-109).  A     *)
(* scalar result is a number: zip() over it raises TypeError.             *)
OutputAsDict(f, r) ==
    IF r.kind = "none" THEN [err |-> NoErr, map |-> EmptyMap]
    ELSE IF r.kind = "dict" THEN [err |-> NoErr, map |-> r.map]
    ELSE IF Len(f.output_names) = 1 /\ r.kind # "tuple"
    THEN [err |-> NoErr, map |-> [n \in {f.output_names[1]} |-> r.vals[1]]]
    ELSE IF r.kind = "tuple"
    THEN LET m == IF Len(r.vals) < Len(f.output_names)
                  THEN Len(r.vals) ELSE Len(f.output_names)
         IN  [err |-> NoErr,
              map |-> [n \in {f.output_names[i] : i \in 1..m} |->
                          r.vals[CHOOSE i \in 1..m : f.output_names[i] = n]]]
    ELSE [err |-> Error("not iterable", {}), map |-> EmptyMap]

(* _postprocess_outputs that never compares the result with output_names *)
PostprocessOutputsNoCheck(f, r) ==
    IF f.never_run
    THEN [obj |-> [f EXCEPT !.never_run = FALSE,
                            !.known = TRUE,
                            !.output_names = IF f.known THEN f.output_names
                                             ELSE GuessOutputNames(f, r)],
          err |-> NoErr]
    ELSE [obj |-> f, err |-> NoErr]

(* _postprocess_outputs that infers output_names again on every call *)
PostprocessOutputsAlwaysGuess(f, r) ==
    [obj |-> [f EXCEPT !.never_run = FALSE,
                       !.known = TRUE,
                       !.output_names = GuessOutputNames(f, r)],
     err |-> NoErr]

(* AbstractLabelledCallable._postprocess_outputs (abstract.py:111-118):   *)
(* the object after the call and the error raised, if any.                *)
PostprocessOutputs(f, r) ==
    IF f.never_run
    THEN LET f1 == [f EXCEPT !.never_run = FALSE,
                             !.known = TRUE,
                             !.output_names = IF f.known THEN f.output_names
                                              ELSE GuessOutputNames(f, r)]
             od == OutputAsDict(f1, r)
         IN  [obj |-> f1,
              err |-> IF od.err # NoErr THEN od.err
                      ELSE IF DOMAIN od.map # Range(f1.output_names)
                      THEN Error("inconsistent", {})
                      ELSE NoErr]
    ELSE [obj |-> f, err |-> NoErr]

(***************************************************************************)
(* The labelled functions of labels.py, which pipeline() of compose.py     *)
(* wraps its steps and its own body in.                                    *)
(***************************************************************************)
(* LabelledFunction._check_output_consistency (labels.py:116-125) *)
CheckOutputConsistency(f, r) ==
    IF r.kind = "none" THEN Len(f.output_names) = 0
    ELSE IF r.kind = "tuple" /\ Len(r.vals) > 1 THEN Len(r.vals) = Len(f.output_names)
    ELSE IF r.kind = "dict" THEN DOMAIN r.map = Range(f.output_names)
    ELSE Len(f.output_names) = 1

(* LabelledFunction._output_as_dict (labels.py:128-136); a one-element    *)
(* tuple is stored whole under the single output name.                    *)
LabelsOutputAsDict(f, r) ==
    IF r.kind = "none" THEN [err |-> NoErr, map |-> EmptyMap]
    ELSE IF r.kind = "dict" THEN [err |-> NoErr, map |-> r.map]
    ELSE IF Len(f.output_names) = 1
    THEN [err |-> NoErr, map |-> [n \in {f.output_names[1]} |-> r.vals[1]]]
    ELSE IF r.kind = "tuple"
    THEN LET m == IF Len(r.vals) < Len(f.output_names)
                  THEN Len(r.vals) ELSE Len(f.output_names)
         IN  [err |-> NoErr,
              map |-> [n \in {f.output_names[i] : i \in 1..m} |->
                          r.vals[CHOOSE i \in 1..m : f.output_names[i] = n]]]
    ELSE [err |-> Error("not iterable", {}), map |-> EmptyMap]

(* the tail of LabelledFunction.__call__ (labels.py:97-103) *)
LabelsPostprocess(f, r) ==
    IF f.never_run
    THEN [obj |-> [f EXCEPT !.never_run = FALSE,
                            !.known = TRUE,
                            !.output_names = IF f.known THEN f.output_names
                                             ELSE GuessOutputNames(f, r)],
          err |-> IF f.known /\ ~CheckOutputConsistency(f, r)
                  THEN Error("assertion", {}) ELSE NoErr]
    ELSE [obj |-> f, err |-> NoErr]

(* binding of keyword arguments to the parameters of a plain function *)
BindArguments(f, kwargs) ==
    LET merged == Merge(f.default_values, kwargs)
        missing == Range(f.input_names) \ DOMAIN merged
    IN  IF missing # {}
        THEN [err |-> Error("missing", missing), kwargs |-> merged]
        ELSE [err |-> NoErr, kwargs |-> merged]

(***************************************************************************)
(* One call of a step on the inputs taken from the namespace: the object   *)
(* after the call, the error raised if any, whether the wrapped function   *)
(* was invoked, the arguments it received and the outputs to merge.        *)
(* abstract.py:120-123, 138-139 for the steps of a LabelledPipeline and    *)
(* labels.py:94-103, 176-177 for the steps of pipeline() of compose.py.    *)
(***************************************************************************)
StepCall(style, f, inputs, sh) ==
    LET pre == IF style = "compose" THEN BindArguments(f, inputs)
               ELSE PreprocessInputs(Range(f.input_names), f.default_values, {}, inputs)
        r == Invoke(f, pre.kwargs, sh)
        post == IF style = "compose" THEN LabelsPostprocess(f, r)
                ELSE PostprocessOutputs(f, r)
        od == IF style = "compose" THEN LabelsOutputAsDict(post.obj, r)
              ELSE OutputAsDict(post.obj, r)
    IN  IF pre.err # NoErr
        THEN [obj |-> f, err |-> pre.err, invoked |-> FALSE,
              kwargs |-> pre.kwargs, map |-> EmptyMap]
        ELSE IF post.err # NoErr
        THEN [obj |-> post.obj, err |-> post.err, invoked |-> TRUE,
              kwargs |-> pre.kwargs, map |-> EmptyMap]
        ELSE [obj |-> post.obj, err |-> od.err, invoked |-> TRUE,
              kwargs |-> pre.kwargs,
              map |-> IF od.err = NoErr THEN od.map ELSE EmptyMap]

(* an update that keeps the values already in the namespace *)
NamespaceUpdateKeepOld(ns, outputs) == Merge(outputs, ns)

(* the namespace replaced by the outputs *)
NamespaceUpdateReplace(ns, outputs) == outputs

(* namespace.update(outputs) (abstract.py:140, labels.py:178) *)
NamespaceUpdate(ns, outputs) == Merge(ns, outputs)

(* the whole namespace returned, inputs and intermediates included *)
FilterOutputsWholeNamespace(ns, output_names) == ns

(* the result of the pipeline's function (pipeline.py:50) *)
FilterOutputs(ns, output_names) == Restrict(ns, output_names)

(***************************************************************************)
(* LabelledPipeline._graph (pipeline.py:123-166).                          *)
(***************************************************************************)
GraphInit ==
    [pipe_inputs |-> {}, pipe_outputs |-> {}, edges |-> {},
     last_modified |-> EmptyMap, default_values |-> EmptyMap]

(* GraphStep with the outputs of f registered before its inputs are read *)
GraphStepOutputsFirst(g, f, keep) ==
    LET ins == Range(f.input_names)
        outs == Range(f.output_names)
        lm == Merge(g.last_modified, [n \in outs |-> f.name])
        produced == ins \cap DOMAIN lm
        external == ins \ DOMAIN lm
    IN  [pipe_inputs |-> g.pipe_inputs \cup external,
         pipe_outputs |-> (IF keep THEN g.pipe_outputs ELSE g.pipe_outputs \ produced) \cup outs,
         edges |-> g.edges
                     \cup {<<lm[n], n, f.name>> : n \in produced}
                     \cup {<<None, n, f.name>> : n \in external},
         last_modified |-> lm,
         default_values |-> Merge(g.default_values,
                                  Restrict(f.default_values, external))]

(* GraphStep dropping every consumed name from the outputs, produced or not *)
GraphStepDropConsumed(g, f, keep) ==
    LET ins == Range(f.input_names)
        produced == ins \cap DOMAIN g.last_modified
        external == ins \ DOMAIN g.last_modified
        outs == Range(f.output_names)
    IN  [pipe_inputs |-> g.pipe_inputs \cup external,
         pipe_outputs |-> IF keep THEN g.pipe_outputs \cup outs
                          ELSE (g.pipe_outputs \cup outs) \ ins,
         edges |-> g.edges
                     \cup {<<g.last_modified[n], n, f.name>> : n \in produced}
                     \cup {<<None, n, f.name>> : n \in external},
         last_modified |-> Merge(g.last_modified, [n \in outs |-> f.name]),
         default_values |-> Merge(g.default_values,
                                  Restrict(f.default_values, external))]

(* GraphStep ignoring return_intermediate_outputs *)
GraphStepNoIntermediate(g, f, keep) ==
    LET ins == Range(f.input_names)
        produced == ins \cap DOMAIN g.last_modified
        external == ins \ DOMAIN g.last_modified
        outs == Range(f.output_names)
    IN  [pipe_inputs |-> g.pipe_inputs \cup external,
         pipe_outputs |-> (g.pipe_outputs \ produced) \cup outs,
         edges |-> g.edges
                     \cup {<<g.last_modified[n], n, f.name>> : n \in produced}
                     \cup {<<None, n, f.name>> : n \in external},
         last_modified |-> Merge(g.last_modified, [n \in outs |-> f.name]),
         default_values |-> Merge(g.default_values,
                                  Restrict(f.default_values, external))]

(* GraphStep keeping the default a name already has *)
GraphStepFirstDefault(g, f, keep) ==
    LET ins == Range(f.input_names)
        produced == ins \cap DOMAIN g.last_modified
        external == ins \ DOMAIN g.last_modified
        outs == Range(f.output_names)
    IN  [pipe_inputs |-> g.pipe_inputs \cup external,
         pipe_outputs |-> (IF keep THEN g.pipe_outputs ELSE g.pipe_outputs \ produced) \cup outs,
         edges |-> g.edges
                     \cup {<<g.last_modified[n], n, f.name>> : n \in produced}
                     \cup {<<None, n, f.name>> : n \in external},
         last_modified |-> Merge(g.last_modified, [n \in outs |-> f.name]),
         default_values |-> Merge(Restrict(f.default_values, external),
                                  g.default_values)]

(* GraphStep taking a name a step produces out of the pipeline inputs *)
GraphStepProducedNotInput(g, f, keep) ==
    LET ins == Range(f.input_names)
        produced == ins \cap DOMAIN g.last_modified
        external == ins \ DOMAIN g.last_modified
        outs == Range(f.output_names)
    IN  [pipe_inputs |-> (g.pipe_inputs \cup external) \ outs,
         pipe_outputs |-> (IF keep THEN g.pipe_outputs ELSE g.pipe_outputs \ produced) \cup outs,
         edges |-> g.edges
                     \cup {<<g.last_modified[n], n, f.name>> : n \in produced}
                     \cup {<<None, n, f.name>> : n \in external},
         last_modified |-> Merge(g.last_modified, [n \in outs |-> f.name]),
         default_values |-> Merge(g.default_values,
                                  Restrict(f.default_values, external))]

(* GraphStep dropping the consumed names after adding the step's outputs *)
GraphStepRemoveAfterAdd(g, f, keep) ==
    LET ins == Range(f.input_names)
        produced == ins \cap DOMAIN g.last_modified
        external == ins \ DOMAIN g.last_modified
        outs == Range(f.output_names)
    IN  [pipe_inputs |-> g.pipe_inputs \cup external,
         pipe_outputs |-> IF keep THEN g.pipe_outputs \cup outs
                          ELSE (g.pipe_outputs \cup outs) \ produced,
         edges |-> g.edges
                     \cup {<<g.last_modified[n], n, f.name>> : n \in produced}
                     \cup {<<None, n, f.name>> : n \in external},
         last_modified |-> Merge(g.last_modified, [n \in outs |-> f.name]),
         default_values |-> Merge(g.default_values,
                                  Restrict(f.default_values, external))]

(* one iteration of "for f in self.funcs" *)
GraphStep(g, f, keep) ==
    LET ins == Range(f.input_names)
        produced == ins \cap DOMAIN g.last_modified
        external == ins \ DOMAIN g.last_modified
        outs == Range(f.output_names)
    IN  [pipe_inputs |-> g.pipe_inputs \cup external,
         pipe_outputs |-> (IF keep THEN g.pipe_outputs ELSE g.pipe_outputs \ produced) \cup outs,
         edges |-> g.edges
                     \cup {<<g.last_modified[n], n, f.name>> : n \in produced}
                     \cup {<<None, n, f.name>> : n \in external},
         last_modified |-> Merge(g.last_modified, [n \in outs |-> f.name]),
         default_values |-> Merge(g.default_values,
                                  Restrict(f.default_values, external))]

RECURSIVE GraphLoop(_, _, _)
GraphLoop(g, fs, keep) ==
    IF fs = <<>> THEN g
    ELSE GraphLoop(GraphStep(g, Head(fs), keep), Tail(fs), keep)

(* edges to the outputs, then the fusion of similar edges into dummy nodes *)
Graph(fs, keep) ==
    LET g == GraphLoop(GraphInit, fs, keep)
        e1 == g.edges \cup {<<g.last_modified[n], n, None>> : n \in g.pipe_outputs}
        similar(s, l) == {e \in e1 : e[1] = s /\ e[2] = l}
        fused == {e \in e1 : e[1] # None /\ Cardinality(similar(e[1], e[2])) > 1}
        node(e) == e[1] \o "_" \o e[2]
    IN  [pipe_inputs |-> g.pipe_inputs,
         default_values |-> g.default_values,
         pipe_outputs |-> g.pipe_outputs,
         funcs_nodes |-> {f.name : f \in Range(fs)},
         dummy_nodes |-> {node(e) : e \in fused},
         edges |-> (e1 \ fused)
                     \cup {<<e[1], e[2], node(e)>> : e \in fused}
                     \cup {<<node(e), e[2], e[3]>> : e \in fused}]

(***************************************************************************)
(* pipeline() of compose.py (compose.py:5-27): the resolution loop.        *)
(***************************************************************************)
RECURSIVE ComposeLoop(_, _, _)
ComposeLoop(fs, pipe_inputs, intermediate) ==
    IF fs = <<>> THEN [pipe_inputs |-> pipe_inputs, intermediate |-> intermediate]
    ELSE ComposeLoop(Tail(fs),
                     pipe_inputs \cup (Range(Head(fs).input_names) \ intermediate),
                     intermediate \cup Range(Head(fs).output_names))

ComposeResolve(fs, keep) ==
    LET r == ComposeLoop(fs, {}, {})
        all_inputs == UNION {Range(f.input_names) : f \in Range(fs)}
    IN  [pipe_inputs |-> r.pipe_inputs,
         pipe_outputs |-> IF keep THEN r.intermediate ELSE r.intermediate \ all_inputs]

(***************************************************************************)
(* State after the labelled functions have been created.                   *)
(***************************************************************************)
(* no direct call is under way *)
NoAgain == [style |-> "", nargs |-> 0, shape |-> NoneResult, err |-> NoErr,
            repeated |-> FALSE]

NoPipe ==
    [name |-> "", input_names |-> {}, output_names |-> {}, default_values |-> EmptyMap,
     never_run |-> TRUE, graph_inputs |-> {}, edges |-> {}]

(* no concurrent invocation *)
NoConcurrent == [pc |-> "idle", kw |-> EmptyMap, namespace |-> EmptyMap, k |-> 0,
             result |-> EmptyMap, err |-> NoErr, overlap |-> FALSE]

(* no derived-variant operation has been applied *)
NoMade == [op |-> "", err |-> NoErr, obj |-> NoPipe]

(* the default name of a pipeline (pipeline.py:33-34) *)
RECURSIVE PipelineName(_)
PipelineName(fs) ==
    IF Len(fs) = 0 THEN ""
    ELSE IF Len(fs) = 1 THEN fs[1].name
    ELSE fs[1].name \o " | " \o PipelineName(Tail(fs))

Init ==
    /\ objs = [p \in PoolIds |-> Pool[p]]
    /\ funcs = <<>>
    /\ rio \in BOOLEAN
    /\ dvArg = EmptyMap
    /\ impl = "none"
    /\ pipe = NoPipe
    /\ made = NoMade
    /\ concurrent = NoConcurrent
    /\ target = 0
    /\ again = NoAgain
    /\ pc = "idle"
    /\ kw = EmptyMap
    /\ namespace = EmptyMap
    /\ k = 0
    /\ trace = <<>>
    /\ result = EmptyMap
    /\ err = NoErr

Steps == [i \in 1..Len(funcs) |-> objs[funcs[i]]]

(* the caller assembles the list of steps *)
AddFunc(p) ==
    /\ impl = "none"
    /\ Len(funcs) < MaxFuncs
    /\ funcs' = Append(funcs, p)
    /\ UNCHANGED <<objs, rio, dvArg, impl, pipe, callVars, opVars>>

(* LabelledPipeline.__init__ without the test on unknown outputs *)
LabelledPipelineInitNoUnknownCheck(dv) ==
    /\ impl = "none"
    /\ funcs # <<>>
    /\ dvArg' = dv
    /\ LET g == Graph(Steps, rio)
           sub_default_values == Merge(g.default_values, dv)
       IN  IF DOMAIN sub_default_values \subseteq g.pipe_inputs
           THEN /\ impl' = "pipeline"
                /\ pipe' = [name |-> PipelineName(Steps),
                            input_names |-> g.pipe_inputs,
                            output_names |-> g.pipe_outputs,
                            default_values |-> sub_default_values,
                            never_run |-> TRUE,
                            graph_inputs |-> g.pipe_inputs,
                            edges |-> g.edges]
           ELSE /\ impl' = "failed"
                /\ UNCHANGED <<pipe>>
    /\ UNCHANGED <<objs, funcs, rio, callVars, opVars>>

(* LabelledPipeline.__init__ (pipeline.py:24-59) *)
LabelledPipelineInit(dv) ==
    /\ impl = "none"
    /\ funcs # <<>>
    /\ dvArg' = dv
    /\ IF \E i \in 1..Len(funcs) : ~Steps[i].known
       THEN \* AttributeError: a function whose outputs are unknown
            /\ impl' = "failed"
            /\ UNCHANGED <<pipe>>
       ELSE LET g == Graph(Steps, rio)
                sub_default_values == Merge(g.default_values, dv)
            IN  IF DOMAIN sub_default_values \subseteq g.pipe_inputs
                THEN /\ impl' = "pipeline"
                     /\ pipe' = [name |-> PipelineName(Steps),
                                 input_names |-> g.pipe_inputs,
                                 output_names |-> g.pipe_outputs,
                                 default_values |-> sub_default_values,
                                 never_run |-> TRUE,
                                 graph_inputs |-> g.pipe_inputs,
                                 edges |-> g.edges]
                ELSE \* AssertionError in AbstractLabelledCallable.__init__
                     /\ impl' = "failed"
                     /\ UNCHANGED <<pipe>>
    /\ UNCHANGED <<objs, funcs, rio, callVars, opVars>>

(* pipeline() of compose.py (compose.py:5-48) *)
ComposePipeline(dv) ==
    /\ impl = "none"
    /\ funcs # <<>>
    /\ dvArg' = dv
    /\ LET named == [p \in PoolIds |->
                        IF p \in Range(funcs) /\ ~objs[p].known
                        THEN [objs[p] EXCEPT !.known = TRUE,
                                             !.output_names = <<objs[p].name>>]
                        ELSE objs[p]]
           r == ComposeResolve([i \in 1..Len(funcs) |-> named[funcs[i]]], rio)
       IN  /\ objs' = named
           /\ impl' = "compose"
           /\ pipe' = [name |-> "pipe",
                       input_names |-> r.pipe_inputs,
                       output_names |-> r.pipe_outputs,
                       default_values |-> dv,
                       never_run |-> TRUE,
                       graph_inputs |-> r.pipe_inputs,
                       edges |-> {}]
    /\ UNCHANGED <<funcs, rio, callVars, opVars>>


CallerValue(n) == 6 + NameIdx(n)

KwArgs == {[n \in S |-> CallerValue(n)] : S \in SUBSET Names}

(***************************************************************************)
(* A call with keyword arguments on the pipeline.                          *)
(* LabelledPipeline: AbstractLabelledCallable.__call__ (abstract.py:       *)
(* 120-123) runs _preprocess_inputs, then the pipeline's function          *)
(* (pipeline.py:47-51), one step at a time, then _postprocess_outputs.     *)
(* compose.py: LabelledFunction.__call__ (labels.py:94-103) runs pipe      *)
(* (compose.py:38-44), then checks the outputs on the first run.           *)
(***************************************************************************)
CallStart(kwargs) ==
    IF impl = "compose"
    THEN LET ns == Merge(dvArg, kwargs)
             superfluous_inputs == (DOMAIN ns) \ pipe.input_names
         IN  [err |-> IF superfluous_inputs # {}
                      THEN Error("unexpected", superfluous_inputs) ELSE NoErr,
              kwargs |-> ns]
    ELSE PreprocessInputs(pipe.input_names, pipe.default_values, {}, kwargs)

Call(kwargs) ==
    /\ impl \in {"pipeline", "compose"}
    /\ pc = "idle"
    /\ kw' = kwargs
    /\ LET pre == CallStart(kwargs)
       IN  IF pre.err # NoErr
           THEN /\ pc' = "error"
                /\ err' = pre.err
                /\ UNCHANGED <<namespace, k>>
           ELSE /\ pc' = "running"
                /\ namespace' = pre.kwargs
                /\ k' = 1
                /\ UNCHANGED err
    /\ trace' = <<>>
    /\ result' = EmptyMap
    /\ UNCHANGED <<objs, funcs, rio, dvArg, impl, pipe, target, again, made, concurrent>>

(* apply_in_namespace merging the outputs of a step whose call raises *)
ApplyInNamespaceMergeFirst(sh) ==
    /\ pc = "running"
    /\ k <= Len(funcs)
    /\ LET f == objs[funcs[k]]
           inputs == Restrict(namespace, Range(f.input_names))
           c == StepCall(impl, f, inputs, sh)
           r == Invoke(f, c.kwargs, sh)
           outputs == IF impl = "compose" THEN LabelsOutputAsDict(c.obj, r).map
                      ELSE OutputAsDict(c.obj, r).map
       IN  /\ sh \in f.shapes
           /\ objs' = [objs EXCEPT ![funcs[k]] = c.obj]
           /\ trace' = IF c.invoked
                       THEN Append(trace, [step |-> k, inputs |-> c.kwargs,
                                           outputs |-> c.map, shape |-> sh,
                                           first |-> f.never_run, known |-> f.known])
                       ELSE trace
           /\ IF c.err # NoErr
              THEN /\ pc' = "error" /\ err' = c.err /\ UNCHANGED k
                   /\ namespace' = IF c.invoked THEN NamespaceUpdate(namespace, outputs)
                                   ELSE namespace
              ELSE /\ namespace' = NamespaceUpdate(namespace, c.map)
                   /\ k' = k + 1
                   /\ UNCHANGED <<pc, err>>
    /\ UNCHANGED <<funcs, rio, dvArg, impl, pipe, target, again, made, concurrent, kw, result>>

(* f.apply_in_namespace(namespace) for the next step                      *)
(* (abstract.py:125-141, labels.py:163-179)                               *)
ApplyInNamespace(sh) ==
    /\ pc = "running"
    /\ k <= Len(funcs)
    /\ LET f == objs[funcs[k]]
           inputs == Restrict(namespace, Range(f.input_names))
           c == StepCall(impl, f, inputs, sh)
       IN  /\ sh \in f.shapes
           /\ objs' = [objs EXCEPT ![funcs[k]] = c.obj]
           /\ trace' = IF c.invoked
                       THEN Append(trace, [step |-> k, inputs |-> c.kwargs,
                                           outputs |-> c.map, shape |-> sh,
                                           first |-> f.never_run, known |-> f.known])
                       ELSE trace
           /\ IF c.err # NoErr
              THEN /\ pc' = "error"
                   /\ err' = c.err
                   /\ UNCHANGED <<namespace, k>>
              ELSE /\ namespace' = NamespaceUpdate(namespace, c.map)
                   /\ k' = k + 1
                   /\ UNCHANGED <<pc, err>>
    /\ UNCHANGED <<funcs, rio, dvArg, impl, pipe, target, again, made, concurrent, kw, result>>

(* end of the pipeline's function, then the check of the outputs on the   *)
(* first run (abstract.py:111-118, labels.py:97-103)                      *)
Return ==
    /\ pc = "running"
    /\ k > Len(funcs)
    /\ LET r == FilterOutputs(namespace, pipe.output_names)
       IN  /\ pipe' = [pipe EXCEPT !.never_run = FALSE]
           /\ IF pipe.never_run /\ DOMAIN r # pipe.output_names
              THEN /\ pc' = "error"
                   /\ err' = Error(IF impl = "compose" THEN "assertion"
                                   ELSE "inconsistent", {})
                   /\ UNCHANGED result
              ELSE /\ pc' = "done"
                   /\ result' = r
                   /\ UNCHANGED err
    /\ UNCHANGED <<objs, funcs, rio, dvArg, impl, target, again, made, concurrent, namespace, k, trace, kw>>

(* set_default on the pipeline (abstract.py:40-43); the caller            *)
(* goes on with the pipeline it returns.                                  *)
SetDefault(names_and_values) ==
    /\ impl = "pipeline"
    /\ pc = "idle"
    /\ pipe' = [pipe EXCEPT !.default_values = Merge(pipe.default_values, names_and_values)]
    /\ dvArg' = Merge(dvArg, names_and_values)
    /\ UNCHANGED <<objs, funcs, rio, impl, callVars, opVars>>

(* the caller gets the result or the exception; the object can be called again *)
Finish ==
    /\ pc \in {"done", "error"}
    /\ target' = 0
    /\ again' = NoAgain
    /\ pc' = "idle"
    /\ kw' = EmptyMap
    /\ namespace' = EmptyMap
    /\ k' = 0
    /\ trace' = <<>>
    /\ result' = EmptyMap
    /\ err' = NoErr
    /\ UNCHANGED <<objs, funcs, rio, dvArg, impl, pipe, made, concurrent>>

(***************************************************************************)
(* A direct call f(args, kwargs) on a labelled function: the first nargs   *)
(* inputs are passed by position, the names of kwargs by keyword.  The     *)
(* function is an AbstractLabelledCallable (style "pipeline",              *)
(* abstract.py:120-123) or a LabelledFunction of labels.py (style          *)
(* "compose", labels.py:94-103), whose arguments go unchecked to the       *)
(* wrapped function; there only keywords the function accepts are drawn.   *)
(***************************************************************************)
DirectCallBody(style, p, nargs, kwargs, sh) ==
    /\ nargs <= Len(objs[p].input_names)
    /\ sh \in objs[p].shapes
    /\ style = "compose" => DOMAIN kwargs \subseteq Range(objs[p].input_names)
    /\ LET f == objs[p]
           positional == {f.input_names[i] : i \in 1..nargs}
           byPosition == [n \in positional |-> CallerValue(n)]
           pre == IF style = "compose"
                  THEN BindArguments(f, Merge(byPosition, kwargs))
                  ELSE PreprocessInputs(Range(f.input_names), f.default_values,
                                        positional, kwargs)
           args == Merge(byPosition, pre.kwargs)
           r == Invoke(f, args, sh)
           post == IF style = "compose" THEN LabelsPostprocess(f, r)
                   ELSE PostprocessOutputs(f, r)
       IN  /\ positional \cap DOMAIN kwargs = {}
           /\ target' = p
           /\ kw' = Merge(byPosition, kwargs)
           /\ IF pre.err # NoErr
              THEN /\ pc' = "error"
                   /\ err' = pre.err
                   /\ trace' = <<>>
                   /\ UNCHANGED <<objs, result>>
              ELSE /\ objs' = [objs EXCEPT ![p] = post.obj]
                   /\ trace' = <<[step |-> 0, inputs |-> args, outputs |-> EmptyMap,
                                  shape |-> sh, first |-> f.never_run,
                                  known |-> f.known, style |-> style]>>
                   /\ IF post.err # NoErr
                      THEN pc' = "error" /\ err' = post.err /\ UNCHANGED result
                      ELSE pc' = "done" /\ result' = r /\ err' = NoErr
    /\ UNCHANGED <<funcs, rio, dvArg, impl, pipe, made, concurrent, namespace, k>>

DirectCall(style, p, nargs, kwargs, sh) ==
    /\ pc = "idle"
    /\ DirectCallBody(style, p, nargs, kwargs, sh)
    /\ again' = [style |-> style, nargs |-> nargs, shape |-> sh, err |-> NoErr,
                 repeated |-> FALSE]

(* the caller of a direct call that failed makes the identical call again: *)
(* the same function, arguments and result of the wrapped function         *)
RepeatCall ==
    /\ pc = "error"
    /\ target # 0
    /\ ~again.repeated
    /\ LET positional == {objs[target].input_names[i] : i \in 1..again.nargs}
       IN  DirectCallBody(again.style, target, again.nargs,
                          Restrict(kw, DOMAIN kw \ positional), again.shape)
    /\ again' = [again EXCEPT !.err = err, !.repeated = TRUE]

(***************************************************************************)
(* The derived-variant operations (abstract.py:35-62, pipeline.py:105-121) *)
(* copy(self) is a shallow copy: the copy holds the very dict of           *)
(* default_values of the receiver until the attribute is assigned anew.    *)
(***************************************************************************)
(* LabelledPipeline(funcs, name, default_values, return_intermediate_outputs) *)
(* as an object of its own (pipeline.py:24-59)                             *)
NewPipeline(fs, name, dv, keep) ==
    IF \E i \in 1..Len(fs) : ~fs[i].known
    THEN [err |-> Error("AttributeError", {}), obj |-> NoPipe]
    ELSE LET g == Graph(fs, keep)
             sub_default_values == Merge(g.default_values, dv)
         IN  IF DOMAIN sub_default_values \subseteq g.pipe_inputs
             THEN [err |-> NoErr,
                   obj |-> [name |-> name,
                            input_names |-> g.pipe_inputs,
                            output_names |-> g.pipe_outputs,
                            default_values |-> sub_default_values,
                            never_run |-> TRUE,
                            graph_inputs |-> g.pipe_inputs,
                            edges |-> g.edges,
                            funcs |-> fs,
                            return_intermediate_outputs |-> keep]]
             ELSE [err |-> Error("AssertionError", {}), obj |-> NoPipe]

(* the pipeline under construction seen as one object *)
PipeObj ==
    [name |-> pipe.name, input_names |-> pipe.input_names,
     output_names |-> pipe.output_names, default_values |-> pipe.default_values,
     never_run |-> pipe.never_run, graph_inputs |-> pipe.graph_inputs,
     edges |-> pipe.edges, funcs |-> Steps, return_intermediate_outputs |-> rio]

(* fix on a labelled function, after the specification: the names are      *)
(* removed from input_names and default_values and the function is closed  *)
(* over the values; only inputs of the function are closed over.           *)
FixStep(f, names_and_values) ==
    LET nv == Restrict(names_and_values, Range(f.input_names))
    IN  [f EXCEPT !.input_names = SelectSeq(f.input_names, LAMBDA n : n \notin DOMAIN nv),
                  !.default_values = Restrict(f.default_values,
                                              (DOMAIN f.default_values) \ DOMAIN nv),
                  !.fixed = Merge(f.fixed, nv)]

(* LabelledPipeline._which_input_is_used_by_this_function (pipeline.py:97-103) *)
InputsUsedBy(edges, name) == {e[2] : e \in {d \in edges : d[1] = None /\ d[3] = name}}

(* LabelledPipeline.fix (pipeline.py:105-121) *)
PipelineFix(p, names_to_fix) ==
    LET fixed_funcs ==
            [i \in 1..Len(p.funcs) |->
                LET fixable_names ==
                        Restrict(names_to_fix, InputsUsedBy(p.edges, p.funcs[i].name))
                IN  IF DOMAIN fixable_names # {}
                    THEN FixStep(p.funcs[i], fixable_names)
                    ELSE p.funcs[i]]
    IN  NewPipeline(fixed_funcs, p.name,
                    Restrict(p.default_values,
                             (DOMAIN p.default_values) \ DOMAIN names_to_fix),
                    p.return_intermediate_outputs)

(* the loop of reset_default (abstract.py:47-48): the dict after the       *)
(* deletions, and the KeyError of the first name that has no default       *)
RECURSIVE ResetLoop(_, _)
ResetLoop(d, names) ==
    IF names = <<>> THEN [err |-> NoErr, default_values |-> d]
    ELSE IF Head(names) \in DOMAIN d
    THEN ResetLoop(Restrict(d, (DOMAIN d) \ {Head(names)}), Tail(names))
    ELSE [err |-> Error("KeyError", {Head(names)}), default_values |-> d]

(***************************************************************************)
(* A whole call on a pipeline object, every step returning a result of     *)
(* the shape of its output_names (abstract.py:120-141, pipeline.py:47-51)  *)
(***************************************************************************)
RegularShape(f) ==
    IF Len(f.output_names) = 1 THEN Scalar ELSE Tuple(Len(f.output_names))

(* the loop over the steps (pipeline.py:48-49) *)
RECURSIVE RunSteps(_, _)
RunSteps(fs, ns) ==
    IF fs = <<>> THEN [err |-> NoErr, namespace |-> ns]
    ELSE LET f == Head(fs)
             c == StepCall("pipeline", f, Restrict(ns, Range(f.input_names)),
                           RegularShape(f))
         IN  IF c.err # NoErr THEN [err |-> c.err, namespace |-> ns]
             ELSE RunSteps(Tail(fs), NamespaceUpdate(ns, c.map))

CallPipeline(p, kwargs) ==
    LET pre == PreprocessInputs(p.input_names, p.default_values, {}, kwargs)
        run == RunSteps(p.funcs, pre.kwargs)
    IN  IF pre.err # NoErr THEN [err |-> pre.err, result |-> EmptyMap]
        ELSE IF run.err # NoErr THEN [err |-> run.err, result |-> EmptyMap]
        ELSE [err |-> NoErr, result |-> FilterOutputs(run.namespace, p.output_names)]

(* the operations are applied to the built pipeline *)
CanReceive ==
    /\ impl = "pipeline"
    /\ pc = "idle"
    /\ made = NoMade

(* rename (abstract.py:35-38) *)
Rename(name) ==
    /\ CanReceive
    /\ made' = [op |-> "rename", err |-> NoErr,
                obj |-> [PipeObj EXCEPT !.name = name]]
    /\ UNCHANGED <<objs, funcs, rio, dvArg, impl, pipe, callVars, concurrent>>

(* set_default (abstract.py:40-43): the copy gets a new dict *)
SetDefaultOf(names_and_values) ==
    /\ CanReceive
    /\ made' = [op |-> "set_default", err |-> NoErr,
                obj |-> [PipeObj EXCEPT !.default_values =
                                            Merge(pipe.default_values, names_and_values)]]
    /\ UNCHANGED <<objs, funcs, rio, dvArg, impl, pipe, callVars, concurrent>>

(* reset_default (abstract.py:45-49): the names are deleted from the dict  *)
(* that the copy shares with the receiver                                  *)
ResetDefault(names) ==
    /\ CanReceive
    /\ LET r == ResetLoop(pipe.default_values, names)
       IN  /\ pipe' = [pipe EXCEPT !.default_values = r.default_values]
           /\ made' = [op |-> "reset_default", err |-> r.err,
                       obj |-> IF r.err # NoErr THEN NoPipe
                               ELSE [PipeObj EXCEPT !.default_values = r.default_values]]
    /\ UNCHANGED <<objs, funcs, rio, dvArg, impl, callVars, concurrent>>

(* fix (pipeline.py:105-121) *)
Fix(names_to_fix) ==
    /\ CanReceive
    /\ made' = [op |-> "fix", err |-> PipelineFix(PipeObj, names_to_fix).err,
                obj |-> PipelineFix(PipeObj, names_to_fix).obj,
                names_to_fix |-> names_to_fix]
    /\ UNCHANGED <<objs, funcs, rio, dvArg, impl, pipe, callVars, concurrent>>

(* hide (abstract.py:55-59) *)
Hide(hidden_names) ==
    /\ CanReceive
    /\ LET unhiddable_names == hidden_names \ DOMAIN pipe.default_values
           r == PipelineFix(PipeObj, Restrict(pipe.default_values, hidden_names))
       IN  made' = IF unhiddable_names # {}
                   THEN [op |-> "hide", err |-> Error("AttributeError", unhiddable_names),
                         obj |-> NoPipe]
                   ELSE [op |-> "hide", err |-> r.err, obj |-> r.obj]
    /\ UNCHANGED <<objs, funcs, rio, dvArg, impl, pipe, callVars, concurrent>>

(* the caller lets go of the variant *)
Drop ==
    /\ made # NoMade
    /\ made' = NoMade
    /\ UNCHANGED <<objs, funcs, rio, dvArg, impl, pipe, callVars, concurrent>>

(***************************************************************************)
(* Composition with the vertical line (pipeline.py:61-95, 168-172)         *)
(***************************************************************************)
(* _merge_default_values (pipeline.py:168-172) *)
MergeDefaultValues(first, second) ==
    LET first_outputs == IF first.kind = "pipeline" THEN first.output_names
                         ELSE Range(first.output_names)
    IN  Merge(first.default_values,
              Restrict(second.default_values,
                       (DOMAIN second.default_values) \ first_outputs))

(* operands: the pipeline or a labelled function, with its class *)
AsPipeline(p) == [kind |-> "pipeline"] @@ p
AsFunction(f) == [kind |-> "function"] @@ f

(* the step list of an operand; a function is a step by itself, without    *)
(* the mark of its class                                                   *)
StepsOf(o) ==
    IF o.kind = "pipeline" THEN o.funcs
    ELSE <<[a \in (DOMAIN o) \ {"kind"} |-> o[a]]>>

(* a right operand: a pipeline built from a step list of its own *)
RightPipeline(fs2, keep2, dv2) ==
    NewPipeline([i \in 1..Len(fs2) |-> objs[fs2[i]]],
                PipelineName([i \in 1..Len(fs2) |-> objs[fs2[i]]]), dv2, keep2)

(* the result of left | right built with the merged default values, and   *)
(* the operands as they are afterwards                                     *)
Composed(op, name, left, right, keep) ==
    LET merged == MergeDefaultValues(left, right)
        r == NewPipeline(StepsOf(left) \o StepsOf(right), name, merged, keep)
    IN  [op |-> op, err |-> r.err, obj |-> r.obj, left |-> left, right |-> right,
         merged |-> merged]

(* pipeline | pipeline (LabelledPipeline.__or__, pipeline.py:69-75) *)
OrPipeline(fs2, keep2, dv2) ==
    /\ CanReceive
    /\ RightPipeline(fs2, keep2, dv2).err = NoErr
    /\ LET self == AsPipeline(PipeObj)
           other == AsPipeline(RightPipeline(fs2, keep2, dv2).obj)
       IN  made' = Composed("pipeline | pipeline", self.name \o " | " \o other.name,
                            self, other,
                            self.return_intermediate_outputs
                              \/ other.return_intermediate_outputs)
    /\ UNCHANGED <<objs, funcs, rio, dvArg, impl, pipe, callVars, concurrent>>

(* pipeline | function (LabelledPipeline.__or__, pipeline.py:62-68) *)
OrFunction(p) ==
    /\ CanReceive
    /\ LET self == AsPipeline(PipeObj)
           other == AsFunction(objs[p])
       IN  made' = Composed("pipeline | function", self.name, self, other,
                            self.return_intermediate_outputs)
    /\ UNCHANGED <<objs, funcs, rio, dvArg, impl, pipe, callVars, concurrent>>

(* function | pipeline (LabelledPipeline.__ror__, pipeline.py:80-86) *)
RorFunction(p) ==
    /\ CanReceive
    /\ LET self == AsPipeline(PipeObj)
           other == AsFunction(objs[p])
       IN  made' = Composed("function | pipeline", self.name, other, self,
                            self.return_intermediate_outputs)
    /\ UNCHANGED <<objs, funcs, rio, dvArg, impl, pipe, callVars, concurrent>>

(* the step lists of the right operands *)
RightLists == {<<2>>, <<3>>, <<4>>, <<6>>, <<1, 2>>, <<2, 3>>}

(* the step lists of the third operands *)
ThirdLists == {<<2>>, <<3>>, <<4>>, <<1, 2>>}

(* left | right for two pipelines as a value: the constructor's outcome    *)
(* (LabelledPipeline.__or__, pipeline.py:69-75)                            *)
OrValue(left, right) ==
    NewPipeline(left.funcs \o right.funcs,
                left.name \o " | " \o right.name,
                MergeDefaultValues(left, right),
                left.return_intermediate_outputs \/ right.return_intermediate_outputs)

(* the outer composition of a grouping: the exception of the inner one,    *)
(* if any, ends the expression                                             *)
OuterLeft(pq, r) ==
    IF pq.err # NoErr THEN pq ELSE OrValue(AsPipeline(pq.obj), r)

OuterRight(p, qr) ==
    IF qr.err # NoErr THEN qr ELSE OrValue(p, AsPipeline(qr.obj))

(* the pipeline composed with two more pipelines, in both groupings:       *)
(* (p | q) | r and p | (q | r)                                             *)
OrThree(fs2, keep2, fs3, keep3) ==
    /\ CanReceive
    /\ \E second \in {RightPipeline(fs2, keep2, EmptyMap)},
          third \in {RightPipeline(fs3, keep3, EmptyMap)} :
          /\ second.err = NoErr
          /\ third.err = NoErr
          /\ \E p \in {AsPipeline(PipeObj)}, q \in {AsPipeline(second.obj)},
                r \in {AsPipeline(third.obj)} :
                \E pq \in {OrValue(p, q)}, qr \in {OrValue(q, r)} :
                   \E left_first \in {OuterLeft(pq, r)}, right_first \in {OuterRight(p, qr)} :
                      made' = [op |-> "pipeline | pipeline | pipeline",
                               err |-> left_first.err,
                               obj |-> left_first.obj,
                               p |-> p, q |-> q, r |-> r,
                               left_first |-> left_first,
                               right_first |-> right_first]
    /\ UNCHANGED <<objs, funcs, rio, dvArg, impl, pipe, callVars, concurrent>>

NewNames == {"r"}
NvArgs == {[n \in {"z"} |-> 5], [n \in {"x"} |-> 8]}
ResetArgs == {<<"z">>, <<"x", "z">>, <<"y">>}
HideArgs == {{"z"}, {"x"}}

(***************************************************************************)
(* A second invocation of the same pipeline object by another caller,      *)
(* its steps interleaved with those of the first.  The two invocations     *)
(* share the pipeline object and the step objects; each one runs the       *)
(* body of the pipeline (pipeline.py:47-51, compose.py:31-44) in a frame   *)
(* of its own.                                                             *)
(***************************************************************************)
(* the values the second caller passes *)
ConcurrentValue(n) == 20 + NameIdx(n)

ConcurrentKwArgs == {[n \in S |-> ConcurrentValue(n)] : S \in SUBSET Names}

(* the step functions that return the same shape at every call *)
PureIds == {p \in PoolIds : Cardinality(Pool[p].shapes) = 1}

(* the namespace of a frame that also sees the entries of the first frame *)
FrameNamespaceShared(frame) == Merge(frame.namespace, namespace)

(* the local variable namespace of a frame (pipeline.py:47, compose.py:31) *)
FrameNamespace(frame) == frame.namespace

(* the second caller calls while the first invocation runs, passing        *)
(* values of its own for names the first caller passes                     *)
ConcurrentCall(kwargs) ==
    /\ impl \in {"pipeline", "compose"}
    /\ pc = "running"
    /\ DOMAIN kwargs \subseteq DOMAIN kw
    /\ concurrent.pc = "idle"
    /\ LET pre == CallStart(kwargs)
       IN  concurrent' =
              IF pre.err # NoErr
              THEN [concurrent EXCEPT !.pc = "error", !.kw = kwargs, !.err = pre.err]
              ELSE [concurrent EXCEPT !.pc = "running", !.kw = kwargs,
                                      !.namespace = pre.kwargs, !.k = 1]
    /\ UNCHANGED <<objs, funcs, rio, dvArg, impl, pipe, made, callVars>>

ConcurrentApply(sh) ==
    /\ concurrent.pc = "running"
    /\ concurrent.k <= Len(funcs)
    /\ LET f == objs[funcs[concurrent.k]]
           ns == FrameNamespace(concurrent)
           inputs == Restrict(ns, Range(f.input_names))
           c == StepCall(impl, f, inputs, sh)
           between == pc = "running" /\ 1 < k /\ k <= Len(funcs)
       IN  /\ sh \in f.shapes
           /\ objs' = [objs EXCEPT ![funcs[concurrent.k]] = c.obj]
           /\ concurrent' =
                 IF c.err # NoErr
                 THEN [concurrent EXCEPT !.pc = "error", !.err = c.err]
                 ELSE [concurrent EXCEPT !.namespace = NamespaceUpdate(ns, c.map),
                                         !.k = @ + 1,
                                         !.overlap = @ \/ between]
    /\ UNCHANGED <<funcs, rio, dvArg, impl, pipe, made, callVars>>

ConcurrentReturn ==
    /\ concurrent.pc = "running"
    /\ concurrent.k > Len(funcs)
    /\ LET r == FilterOutputs(FrameNamespace(concurrent), pipe.output_names)
       IN  /\ pipe' = [pipe EXCEPT !.never_run = FALSE]
           /\ concurrent' =
                 IF pipe.never_run /\ DOMAIN r # pipe.output_names
                 THEN [concurrent EXCEPT
                          !.pc = "error",
                          !.err = Error(IF impl = "compose" THEN "assertion"
                                        ELSE "inconsistent", {})]
                 ELSE [concurrent EXCEPT !.pc = "done", !.result = r]
    /\ UNCHANGED <<objs, funcs, rio, dvArg, impl, made, callVars>>

(***************************************************************************)
(* One invocation run from its call to its return with no other step in    *)
(* between, on the objects as they are (abstract.py:120-123,               *)
(* pipeline.py:47-51, compose.py:31-44).                                   *)
(***************************************************************************)
RECURSIVE RunAlone(_, _, _)
RunAlone(style, fs, ns) ==
    IF fs = <<>> THEN [err |-> NoErr, namespace |-> ns]
    ELSE LET f == Head(fs)
             c == StepCall(style, f, Restrict(ns, Range(f.input_names)),
                           CHOOSE sh \in f.shapes : TRUE)
         IN  IF c.err # NoErr THEN [err |-> c.err, namespace |-> ns]
             ELSE RunAlone(style, Tail(fs), NamespaceUpdate(ns, c.map))

Alone(kwargs) ==
    LET pre == CallStart(kwargs)
        run == RunAlone(impl, Steps, pre.kwargs)
        r == FilterOutputs(run.namespace, pipe.output_names)
    IN  IF pre.err # NoErr THEN [err |-> pre.err, result |-> EmptyMap]
        ELSE IF run.err # NoErr THEN [err |-> run.err, result |-> EmptyMap]
        ELSE IF pipe.never_run /\ DOMAIN r # pipe.output_names
        THEN [err |-> Error(IF impl = "compose" THEN "assertion" ELSE "inconsistent", {}),
              result |-> EmptyMap]
        ELSE [err |-> NoErr, result |-> r]

(***************************************************************************)
(* The record of a call: LabelledFunction.recorded_call                    *)
(* (labels.py:138-161) and the function keeping_inputs wraps               *)
(* (decorators.py:15-18).  The first nargs inputs are passed by position.  *)
(***************************************************************************)
(* the record with the inputs written over the outputs *)
RecordInputsWin(inputs, outputs) == Merge(outputs, inputs)

(* the returned mapping, inputs first then outputs (labels.py:161) *)
Record(inputs, outputs) == Merge(inputs, outputs)

RecordOf(f, nargs, kwargs, sh) ==
    LET positional == {f.input_names[i] : i \in 1..nargs}
        byPosition == [n \in positional |-> CallerValue(n)]
        inputs == Merge(Merge(f.default_values, byPosition), kwargs)
        pre == BindArguments(f, Merge(byPosition, kwargs))
        r == Invoke(f, pre.kwargs, sh)
        post == LabelsPostprocess(f, r)
        od == LabelsOutputAsDict(post.obj, r)
    IN  [obj |-> IF pre.err # NoErr THEN f ELSE post.obj,
         err |-> IF pre.err # NoErr THEN pre.err
                 ELSE IF post.err # NoErr THEN post.err ELSE od.err,
         entry |-> [step |-> 0, inputs |-> pre.kwargs, outputs |-> od.map,
                    raw |-> r, shape |-> sh, first |-> f.never_run,
                    known |-> f.known, style |-> "record"],
         record |-> Record(inputs, od.map)]

(* the arguments a caller can give to a plain function *)
CanPass(f, nargs, kwargs, sh) ==
    /\ nargs <= Len(f.input_names)
    /\ sh \in f.shapes
    /\ DOMAIN kwargs \subseteq Range(f.input_names)
    /\ {f.input_names[i] : i \in 1..nargs} \cap DOMAIN kwargs = {}

RecordedCall(p, nargs, kwargs, sh) ==
    /\ pc = "idle"
    /\ CanPass(objs[p], nargs, kwargs, sh)
    /\ LET c == RecordOf(objs[p], nargs, kwargs, sh)
       IN  /\ target' = p
           /\ kw' = kwargs
           /\ objs' = [objs EXCEPT ![p] = c.obj]
           /\ trace' = <<c.entry>>
           /\ IF c.err # NoErr
              THEN pc' = "error" /\ err' = c.err /\ UNCHANGED result
              ELSE pc' = "done" /\ result' = c.record /\ err' = NoErr
    /\ UNCHANGED <<funcs, rio, dvArg, impl, pipe, made, concurrent, again, namespace, k>>

(* keeping_inputs(func) (decorators.py:12-28): a new labelled function     *)
(* around func_returning_inputs                                            *)
KeepingInputs(p) ==
    /\ impl = "none"
    /\ pc = "idle"
    /\ made = NoMade
    /\ LET func == objs[p]
       IN  made' = [op |-> "keeping_inputs", err |-> NoErr, of |-> p,
                    obj |-> LF(func.fn, func.name, func.input_names, func.known,
                               IF func.known
                               THEN func.input_names \o func.output_names
                               ELSE <<>>,
                               func.default_values, func.shapes)]
    /\ UNCHANGED <<objs, funcs, rio, dvArg, impl, pipe, concurrent, callVars>>

(* a call of the function keeping_inputs returned: LabelledFunction        *)
(* .__call__ (labels.py:94-103) around func_returning_inputs               *)
KeptCall(nargs, kwargs, sh) ==
    /\ pc = "idle"
    /\ made.op = "keeping_inputs"
    /\ CanPass(objs[made.of], nargs, kwargs, sh)
    /\ LET c == RecordOf(objs[made.of], nargs, kwargs, sh)
           post == LabelsPostprocess(made.obj,
                                     [kind |-> "dict", vals |-> <<>>, map |-> c.record])
       IN  /\ target' = made.of
           /\ kw' = kwargs
           /\ objs' = [objs EXCEPT ![made.of] = c.obj]
           /\ trace' = <<c.entry>>
           /\ IF c.err # NoErr
              THEN pc' = "error" /\ err' = c.err /\ UNCHANGED <<result, made>>
              ELSE /\ made' = [made EXCEPT !.obj = post.obj]
                   /\ IF post.err # NoErr
                      THEN pc' = "error" /\ err' = post.err /\ UNCHANGED result
                      ELSE pc' = "done" /\ result' = c.record /\ err' = NoErr
    /\ UNCHANGED <<funcs, rio, dvArg, impl, pipe, concurrent, again, namespace, k>>

Shapes == UNION {Pool[p].shapes : p \in PoolIds}

DvArgs == {EmptyMap, [n \in {"z"} |-> 5]}

Next ==
    \/ \E p \in PoolIds : AddFunc(p)
    \/ \E dv \in DvArgs : LabelledPipelineInit(dv)
    \/ ComposePipeline(EmptyMap)
    \/ \E kwargs \in KwArgs : Call(kwargs)
    \/ \E sh \in Shapes : ApplyInNamespace(sh)
    \/ Return
    \/ Finish
    \/ \E dv \in DvArgs \ {EmptyMap} : SetDefault(dv)

Spec == Init /\ [][Next]_vars

(* the construction of the pipelines alone *)
NextBuild ==
    \/ \E p \in PoolIds : AddFunc(p)
    \/ \E dv \in DvArgs : LabelledPipelineInit(dv)
    \/ ComposePipeline(EmptyMap)

SpecBuild == Init /\ [][NextBuild]_vars

(* pipelines and their derived variants *)
NextOps ==
    \/ \E p \in PoolIds : AddFunc(p)
    \/ \E dv \in DvArgs : LabelledPipelineInit(dv)
    \/ \E name \in NewNames : Rename(name)
    \/ \E nv \in NvArgs : SetDefaultOf(nv)
    \/ \E names \in ResetArgs : ResetDefault(names)
    \/ \E nv \in NvArgs : Fix(nv)
    \/ \E names \in HideArgs : Hide(names)
    \/ \E fs2 \in RightLists, keep2 \in BOOLEAN : OrPipeline(fs2, keep2, EmptyMap)
    \/ \E p \in PoolIds : OrFunction(p)
    \/ \E p \in PoolIds : RorFunction(p)
    \/ Drop

SpecOps == Init /\ [][NextOps]_vars

(* pipelines composed three at a time *)
NextAssoc ==
    \/ \E p \in PoolIds : AddFunc(p)
    \/ \E dv \in DvArgs : LabelledPipelineInit(dv)
    \/ \E fs2 \in RightLists, keep2 \in BOOLEAN, fs3 \in ThirdLists, keep3 \in BOOLEAN :
          OrThree(fs2, keep2, fs3, keep3)
    \/ Drop

SpecAssoc == Init /\ [][NextAssoc]_vars

(* two callers of one pipeline of pure step functions *)
NextCo ==
    \/ \E p \in PureIds : AddFunc(p)
    \/ LabelledPipelineInit(EmptyMap)
    \/ ComposePipeline(EmptyMap)
    \/ \E kwargs \in KwArgs : Call(kwargs)
    \/ \E sh \in Shapes : ApplyInNamespace(sh)
    \/ Return
    \/ \E kwargs \in ConcurrentKwArgs : ConcurrentCall(kwargs)
    \/ \E sh \in Shapes : ConcurrentApply(sh)
    \/ ConcurrentReturn

SpecCo == Init /\ [][NextCo]_vars

(***************************************************************************)
(* Labelled functions without declared output names, whose wrapped         *)
(* functions return nothing, a single value, a tuple of one, two or three  *)
(* elements, or a mapping (abstract.py:22-27: output_names is Unknown).    *)
(***************************************************************************)
GuessPool ==
    << Pool[1],
       Pool[2],
       LF(3, "a", <<>>, FALSE, <<>>, EmptyMap, {NoneResult, Scalar, Tuple(1)}),
       LF(4, "c", <<"x">>, FALSE, <<>>, EmptyMap,
          {Dict({"y"}), Dict({"y", "z"}), Tuple(3)}),
       Pool[5],
       Pool[6] >>

UnknownIds == {p \in PoolIds : ~GuessPool[p].known}

InitGuess ==
    /\ objs = [p \in PoolIds |-> GuessPool[p]]
    /\ funcs = <<>>
    /\ rio \in BOOLEAN
    /\ dvArg = EmptyMap
    /\ impl = "none"
    /\ pipe = NoPipe
    /\ made = NoMade
    /\ concurrent = NoConcurrent
    /\ target = 0
    /\ again = NoAgain
    /\ pc = "idle"
    /\ kw = EmptyMap
    /\ namespace = EmptyMap
    /\ k = 0
    /\ trace = <<>>
    /\ result = EmptyMap
    /\ err = NoErr

GuessShapes == UNION {GuessPool[p].shapes : p \in PoolIds}

(* the calls of the functions whose output names are inferred *)
NextGuess ==
    \/ \E style \in {"pipeline", "compose"}, p \in UnknownIds, nargs \in 0..MaxArgs,
          kwargs \in KwArgs, sh \in GuessShapes :
          DirectCall(style, p, nargs, kwargs, sh)
    \/ Finish

SpecGuess == InitGuess /\ [][NextGuess]_vars

(***************************************************************************)
(* LabelledFunction(f) on an object that is a LabelledFunction already     *)
(* (labels.py:46-56).  The objects are known by their reference, the       *)
(* index in objs.                                                          *)
(***************************************************************************)
(* __new__ (labels.py:46-50): the object itself, no new one *)
LabelledFunctionNew(ref) == ref

(* __init__ run again on the object: the fields as at the first labelling *)
LabelledFunctionInitAgain(heap, ref) == [heap EXCEPT ![ref] = Pool[ref]]

(* __init__ (labels.py:52-54): nothing is run on a labelled object *)
LabelledFunctionInit(heap, ref) == heap

(* the caller labels a labelled function, or labels again the object       *)
(* the last labelling returned                                             *)
Wrap(ref) ==
    /\ impl = "none"
    /\ pc = "idle"
    /\ made.op = "label" => ref = made.ref
    /\ LET new == LabelledFunctionNew(ref)
       IN  /\ objs' = LabelledFunctionInit(objs, new)
           /\ made' = [op |-> "label", err |-> NoErr, obj |-> NoPipe, of |-> ref,
                       ref |-> new, repeated |-> made.op = "label"]
    /\ UNCHANGED <<funcs, rio, dvArg, impl, pipe, concurrent, callVars>>

(* labelled functions called and labelled again *)
NextWrap ==
    \/ \E p \in PoolIds, nargs \in 0..MaxArgs, kwargs \in KwArgs, sh \in Shapes :
          DirectCall("compose", p, nargs, kwargs, sh)
    \/ Finish
    \/ \E p \in PoolIds : Wrap(p)

SpecWrap == Init /\ [][NextWrap]_vars

(* the records of the calls of the labelled functions *)
NextRec ==
    \/ \E p \in PoolIds, nargs \in 0..MaxArgs, kwargs \in KwArgs, sh \in Shapes :
          RecordedCall(p, nargs, kwargs, sh)
    \/ \E p \in PoolIds : KeepingInputs(p)
    \/ \E nargs \in 0..MaxArgs, kwargs \in KwArgs, sh \in Shapes :
          KeptCall(nargs, kwargs, sh)
    \/ Finish

SpecRec == Init /\ [][NextRec]_vars

(* the labelled functions called directly, outside any pipeline *)
NextFn ==
    \/ \E style \in {"pipeline", "compose"}, p \in PoolIds, nargs \in 0..MaxArgs,
          kwargs \in KwArgs, sh \in Shapes :
          DirectCall(style, p, nargs, kwargs, sh)
    \/ RepeatCall
    \/ Finish

SpecFn == Init /\ [][NextFn]_vars


(***************************************************************************)
(* Properties of the resolution of inputs and outputs.                     *)
(***************************************************************************)
Built == impl \in {"pipeline", "compose"}

InputsOf(i) == Range(Steps[i].input_names)
OutputsOf(i) == Range(Steps[i].output_names)
StepIdx == 1..Len(funcs)

AllInputs == UNION {InputsOf(i) : i \in StepIdx}
Produced == UNION {OutputsOf(i) : i \in StepIdx}

(* names some step lists among its inputs while no earlier step lists them *)
(* among its outputs                                                       *)
RequiredBeforeProduced ==
    {n \in AllInputs : \E i \in StepIdx :
        /\ n \in InputsOf(i)
        /\ \A j \in 1..(i - 1) : n \notin OutputsOf(j)}

(* C1: the input_names resolved at construction are, as a set, the names   *)
(* required by some step and produced by no earlier step; a step that      *)
(* consumes and produces a name consumes it first.                         *)
C1_InputNames == Built => pipe.input_names = RequiredBeforeProduced

(* a pipeline was built in which a step consumes a name it also produces   *)
(* and no earlier step produces it                                         *)
C1_Witness ==
    /\ impl = "pipeline"
    /\ \E i \in StepIdx : \E n \in InputsOf(i) \cap OutputsOf(i) :
          /\ \A j \in 1..(i - 1) : n \notin OutputsOf(j)
          /\ n \in pipe.input_names

(* the last step that lists n among its outputs *)
LastProducer(n) ==
    CHOOSE i \in StepIdx : n \in OutputsOf(i) /\ \A j \in StepIdx : n \in OutputsOf(j) => j <= i

ConsumedAfterLastProducer ==
    {n \in Produced : \E j \in StepIdx : j > LastProducer(n) /\ n \in InputsOf(j)}

(* C2 as stated: without intermediates, the output_names are the produced  *)
(* names minus every name in the input list of any step, whatever its      *)
(* position.                                                               *)
C2_Original == (Built /\ ~rio) => pipe.output_names = Produced \ AllInputs

(* C2 amended: that holds for pipeline() of compose.py; a LabelledPipeline *)
(* removes only the names consumed by a step placed after their last       *)
(* producer.                                                               *)
C2_OutputNames ==
    /\ (impl = "compose" /\ ~rio) => pipe.output_names = Produced \ AllInputs
    /\ (impl = "pipeline" /\ ~rio) =>
          pipe.output_names = Produced \ ConsumedAfterLastProducer

(* a LabelledPipeline keeps as output a name that one of its steps consumes *)
C2_Witness ==
    /\ impl = "pipeline"
    /\ ~rio
    /\ pipe.output_names \cap AllInputs # {}

(* C3: with return_intermediate_outputs, the output_names are all the      *)
(* produced names, those consumed by later steps included, and no pipeline *)
(* input that no step produces is an output.                               *)
C3_IntermediateOutputs ==
    (Built /\ rio) =>
        /\ pipe.output_names = Produced
        /\ \A n \in pipe.input_names : n \notin Produced => n \notin pipe.output_names

(* intermediates are kept: an output is consumed by a later step *)
C3_Witness ==
    /\ impl = "pipeline"
    /\ rio
    /\ \E n \in pipe.output_names : \E i, j \in StepIdx :
          i < j /\ n \in OutputsOf(i) /\ n \in InputsOf(j)
    /\ pipe.input_names \ Produced # {}


(***************************************************************************)
(* Properties of a call on the pipeline.                                   *)
(***************************************************************************)
(* the steps invoked before step i that wrote n into the namespace *)
Writers(i, n) == {j \in 1..(i - 1) : j <= Len(trace) /\ n \in DOMAIN trace[j].outputs}

MaxOf(S) == CHOOSE m \in S : \A j \in S : j <= m

PipelineDefaults == IF impl = "compose" THEN dvArg ELSE pipe.default_values

ExpectedInput(i, n) ==
    IF Writers(i, n) # {} THEN trace[MaxOf(Writers(i, n))].outputs[n]
    ELSE IF n \in DOMAIN kw THEN kw[n]
    ELSE IF n \in DOMAIN PipelineDefaults THEN PipelineDefaults[n]
    ELSE Steps[i].default_values[n]

C5_Result ==
    (pc = "done" /\ \A i \in 1..Len(trace) : DOMAIN trace[i].outputs = OutputsOf(i)) =>
        /\ DOMAIN result = pipe.output_names
        /\ \A n \in DOMAIN result :
              /\ result[n] = namespace[n]
              /\ Writers(Len(funcs) + 1, n) # {}
              /\ result[n] = trace[MaxOf(Writers(Len(funcs) + 1, n))].outputs[n]

(* a finished call whose result holds a name written by two steps, while   *)
(* the namespace holds more than the result                                *)
C5_Witness ==
    /\ impl = "pipeline"
    /\ pc = "done"
    /\ \A i \in 1..Len(trace) : DOMAIN trace[i].outputs = OutputsOf(i)
    /\ \E n \in DOMAIN result : Cardinality(Writers(Len(funcs) + 1, n)) = 2
    /\ DOMAIN result # DOMAIN namespace

(* C6: a pipeline input is seen by the steps with the value supplied by    *)
(* the caller, else the default given to the constructor or set_default,   *)
(* else a default declared by a step.                                      *)
C6_Precedence ==
    pc # "idle" =>
        \A i \in 1..Len(trace) : \A n \in InputsOf(i) \cap pipe.input_names :
            Writers(i, n) = {} =>
                IF n \in DOMAIN kw THEN trace[i].inputs[n] = kw[n]
                ELSE IF n \in DOMAIN dvArg THEN trace[i].inputs[n] = dvArg[n]
                ELSE \E j \in StepIdx :
                        /\ n \in InputsOf(j) \cap DOMAIN Steps[j].default_values
                        /\ trace[i].inputs[n] = Steps[j].default_values[n]

(* one call in which a step received the constructor's default for a name  *)
(* it declares a default for, and a caller's value for another such name   *)
C6_Witness ==
    /\ impl = "pipeline"
    /\ pc = "done"
    /\ \E i \in StepIdx : \E n, m \in InputsOf(i) \cap pipe.input_names \cap DOMAIN Steps[i].default_values :
          /\ n \in (DOMAIN dvArg) \ DOMAIN kw
          /\ trace[i].inputs[n] = dvArg[n]
          /\ trace[i].inputs[n] # Steps[i].default_values[n]
          /\ m \in DOMAIN kw
          /\ trace[i].inputs[m] = kw[m]
          /\ trace[i].inputs[m] # Steps[i].default_values[m]

UnexpectedNames == (DOMAIN kw) \ pipe.input_names
MissingNames == pipe.input_names \ ((DOMAIN kw) \cup DOMAIN pipe.default_values)

(* C7 as stated: a pipeline call with a keyword name outside input_names   *)
(* fails with the unexpected-argument error listing every such name, and   *)
(* no step is invoked.                                                     *)
C7_Original ==
    (impl = "pipeline" /\ pc # "idle" /\ UnexpectedNames # {}) =>
        /\ pc = "error"
        /\ err.kind = "unexpected"
        /\ UnexpectedNames \subseteq err.names
        /\ trace = <<>>

(* C7 amended: such a call fails with a TypeError before any step is       *)
(* invoked; it is the unexpected-argument error listing every such name    *)
(* unless a required input is also missing, and then it is the             *)
(* missing-argument error.                                                 *)
C7_Unexpected ==
    (impl = "pipeline" /\ pc # "idle" /\ UnexpectedNames # {}) =>
        /\ pc = "error"
        /\ trace = <<>>
        /\ IF MissingNames = {}
           THEN err.kind = "unexpected" /\ UnexpectedNames \subseteq err.names
           ELSE err.kind = "missing" /\ err.names = MissingNames

(* a call with two unexpected names failed with the unexpected-argument error *)
C7_Witness ==
    /\ impl = "pipeline"
    /\ pc = "error"
    /\ Cardinality(UnexpectedNames) = 2
    /\ err.kind = "unexpected"
    /\ err.names = UnexpectedNames

StepMissing(i) ==
    InputsOf(i) \ ((DOMAIN namespace) \cup DOMAIN Steps[i].default_values)

(* C8: a call on a pipeline or on a labelled callable (a step) that omits  *)
(* an input without default fails with the missing-argument error, and the *)
(* wrapped function is not invoked.                                        *)
C8_Missing ==
    /\ (impl = "pipeline" /\ pc # "idle" /\ MissingNames # {}) =>
          /\ pc = "error"
          /\ err = Error("missing", MissingNames)
          /\ trace = <<>>
    /\ (pc = "error" /\ k \in StepIdx /\ StepMissing(k) # {}) =>
          /\ err = Error("missing", StepMissing(k))
          /\ Len(trace) = k - 1
    /\ \A i \in 1..Len(trace) : InputsOf(i) \subseteq DOMAIN trace[i].inputs

(* a pipeline call failed for a missing input; a step call did as well *)
C8_Witness ==
    /\ impl = "pipeline"
    /\ pc = "error"
    /\ err.kind = "missing"
    /\ k = 0
    /\ MissingNames # {}

C8_WitnessStep ==
    /\ impl = "pipeline"
    /\ pc = "error"
    /\ err.kind = "missing"
    /\ k \in StepIdx
    /\ StepMissing(k) # {}

(***************************************************************************)
(* Outputs that are unknown or that deviate from output_names              *)
(***************************************************************************)
HasUnknownStep == \E i \in StepIdx : ~Steps[i].known

(* the step objects once compose.py has named the unknown outputs *)
NamedAfterStep ==
    [p \in PoolIds |->
        IF p \in Range(funcs) /\ ~objs[p].known
        THEN [objs[p] EXCEPT !.known = TRUE, !.output_names = <<objs[p].name>>]
        ELSE objs[p]]

(* C9 as stated: whichever constructor is used, building a pipeline from   *)
(* a step list holding a step of unknown output_names fails, and nothing   *)
(* is built or changed.                                                    *)
C9_Original ==
    [][(impl = "none" /\ impl' # "none" /\ HasUnknownStep) =>
          (impl' = "failed" /\ objs' = objs /\ pipe' = pipe)]_vars

(* C9: LabelledPipeline refuses a step list holding a step of unknown     *)
(* output_names: the construction fails, no pipeline is built and no step  *)
(* is changed.  pipeline() of compose.py does not fail: it builds the      *)
(* pipeline after giving each such step the output name [step.name].       *)
C9_UnknownOutputs ==
    [][(impl = "none" /\ impl' # "none" /\ HasUnknownStep) =>
          /\ impl' \in {"failed", "compose"}
          /\ impl' = "failed" => (objs' = objs /\ pipe' = pipe)
          /\ impl' = "compose" => objs' = NamedAfterStep]_vars

(* a LabelledPipeline construction over an unknown step has failed *)
C9_Witness ==
    /\ impl = "failed"
    /\ HasUnknownStep
    /\ pipe = NoPipe

(* the result deviates from output_names as C10 words it: another arity    *)
(* or another key set                                                      *)
Deviates(output_names, sh) ==
    CASE sh.kind = "tuple" -> sh.arity # Len(output_names)
      [] sh.kind = "dict" -> sh.keys # Range(output_names)
      [] sh.kind = "scalar" -> Len(output_names) # 1
      [] OTHER -> Len(output_names) # 0

(* the key set of the result converted to a dict differs from              *)
(* output_names: a tuple is zipped with the names, its surplus is dropped  *)
KeysDiffer(output_names, sh) ==
    CASE sh.kind = "tuple" -> sh.arity < Len(output_names)
      [] sh.kind = "dict" -> sh.keys # Range(output_names)
      [] sh.kind = "scalar" -> Len(output_names) # 1
      [] OTHER -> Len(output_names) # 0

DirectCallEntry == target # 0 /\ trace # <<>>

ArityDiffers(output_names, sh) ==
    CASE sh.kind = "tuple" /\ sh.arity > 1 -> sh.arity # Len(output_names)
      [] sh.kind = "dict" -> sh.keys # Range(output_names)
      [] sh.kind = "none" -> Len(output_names) # 0
      [] OTHER -> Len(output_names) # 1

C10_WitnessLater ==
    /\ DirectCallEntry
    /\ ~trace[1].first
    /\ Deviates(objs[target].output_names, trace[1].shape)
    /\ pc = "done"

C12_Original ==
    again.repeated => (pc = "error" /\ err = again.err)

(* a call that fails for its arguments (missing or unexpected) leaves      *)
(* the callable as it was, and made again it fails in the same way         *)
C12_ArgumentErrors ==
    (again.repeated /\ again.err.kind \in {"missing", "unexpected"}) =>
        /\ pc = "error"
        /\ err = again.err
        /\ trace = <<>>

(* the call rejected for its inconsistent output returned when made again *)
C12_Witness ==
    /\ again.repeated
    /\ again.err.kind \in {"inconsistent", "assertion"}
    /\ pc = "done"

(***************************************************************************)
(* Derived variants                                                        *)
(***************************************************************************)
(* C13 as stated: rename, set_default, reset_default, fix and hide return  *)
(* a new callable and leave the receiver (its name, input_names,           *)
(* output_names and default_values) exactly as it was.                     *)
C13_Original ==
    [][(made = NoMade /\ made' # NoMade) =>
          (objs' = objs /\ pipe' = pipe /\ funcs' = funcs)]_vars

(* rename, set_default, fix and hide leave the receiver as it was *)
C13_OtherOperations ==
    [][(made = NoMade /\ made' # NoMade /\ made'.op # "reset_default") =>
          (objs' = objs /\ pipe' = pipe /\ funcs' = funcs)]_vars

(* reset_default has returned a variant without a default value, and the  *)
(* receiver has lost that default value as well                            *)
C13_Witness ==
    /\ made.op = "reset_default"
    /\ made.err = NoErr
    /\ pipe.default_values = made.obj.default_values
    /\ DOMAIN pipe.default_values # DOMAIN Merge(Graph(Steps, rio).default_values, dvArg)

(***************************************************************************)
(* Composition                                                             *)
(***************************************************************************)
OrOps == {"pipeline | pipeline", "pipeline | function", "function | pipeline"}

(* the step list of an operand *)
KnownOperand(o) == \A i \in 1..Len(StepsOf(o)) : StepsOf(o)[i].known

(* C14 as stated: left | right returns a new pipeline whose step list is   *)
(* the steps of left followed by the steps of right, and both operands     *)
(* keep their step lists, input_names, output_names and default_values.    *)
(* Operands with a step of unknown outputs are left aside.                 *)
C14_Original ==
    [][(made = NoMade /\ made'.op \in OrOps
          /\ KnownOperand(made'.left) /\ KnownOperand(made'.right)) =>
          /\ made'.err = NoErr
          /\ made'.obj.funcs = StepsOf(made'.left) \o StepsOf(made'.right)
          /\ objs' = objs /\ pipe' = pipe /\ funcs' = funcs]_vars

(* when left | right does return, the step list is the concatenation, and  *)
(* returning or not the operands are unchanged                             *)
C14_WhenBuilt ==
    [][(made = NoMade /\ made'.op \in OrOps) =>
          /\ made'.err = NoErr =>
                made'.obj.funcs = StepsOf(made'.left) \o StepsOf(made'.right)
          /\ objs' = objs /\ pipe' = pipe /\ funcs' = funcs]_vars

(* the composition of two pipelines of known outputs has raised *)
C14_Witness ==
    /\ made.op = "pipeline | pipeline"
    /\ made.err.kind = "AssertionError"

(* the pipeline constructed directly from a step list *)
Direct(fs, keep) == NewPipeline(fs, PipelineName(fs), EmptyMap, keep)

ComposedSteps == StepsOf(made.left) \o StepsOf(made.right)

BothPipelines == made.op = "pipeline | pipeline"

(* C15 as stated: for any pipelines p and q, p | q has the input_names     *)
(* and output_names of the pipeline constructed directly from the steps    *)
(* of p followed by the steps of q, with the same                          *)
(* return_intermediate_outputs setting.                                    *)
C15_Original ==
    BothPipelines =>
        LET direct == Direct(ComposedSteps,
                             made.left.return_intermediate_outputs
                               \/ made.right.return_intermediate_outputs)
        IN  /\ direct.err = NoErr
            /\ made.err = NoErr
            /\ made.obj.input_names = direct.obj.input_names
            /\ made.obj.output_names = direct.obj.output_names

(* whenever p | q is built its names are those of the direct construction *)
C15_WhenBuilt ==
    (BothPipelines /\ made.err = NoErr) =>
        LET direct == Direct(ComposedSteps, made.obj.return_intermediate_outputs)
        IN  /\ direct.err = NoErr
            /\ made.obj.input_names = direct.obj.input_names
            /\ made.obj.output_names = direct.obj.output_names

(* the direct construction succeeds where p | q has raised *)
C15_Witness ==
    /\ BothPipelines
    /\ made.err # NoErr
    /\ Direct(ComposedSteps, made.left.return_intermediate_outputs
                               \/ made.right.return_intermediate_outputs).err = NoErr

(* the names a step of the operand computes *)
Computes(o) == UNION {Range(StepsOf(o)[i].output_names) : i \in 1..Len(StepsOf(o))}

(* C16 as stated: a default value of right for a name n is in the merged   *)
(* default map only if no step of left computes n; the default of right    *)
(* for a name that left computes is dropped.                               *)
C16_Original ==
    made.op \in OrOps =>
        \A n \in (DOMAIN made.right.default_values) \cap Computes(made.left) :
            n \in DOMAIN made.merged =>
                /\ n \in DOMAIN made.left.default_values
                /\ made.merged[n] = made.left.default_values[n]

(* the default of right is dropped for the names in left.output_names     *)
C16_OutputNames ==
    made.op \in OrOps =>
        LET first_outputs == IF made.left.kind = "pipeline" THEN made.left.output_names
                             ELSE Range(made.left.output_names)
        IN  /\ \A n \in (DOMAIN made.right.default_values) \cap first_outputs :
                  n \in DOMAIN made.merged =>
                      /\ n \in DOMAIN made.left.default_values
                      /\ made.merged[n] = made.left.default_values[n]
            /\ \A n \in (DOMAIN made.right.default_values) \ first_outputs :
                  /\ n \in DOMAIN made.merged
                  /\ n \notin DOMAIN made.left.default_values =>
                        made.merged[n] = made.right.default_values[n]

(* the merged map holds the default of right for a name that a step of     *)
(* left computes                                                           *)
C16_Witness ==
    /\ made.op \in OrOps
    /\ \E n \in (DOMAIN made.right.default_values) \cap Computes(made.left) :
          /\ n \in DOMAIN made.merged
          /\ n \notin DOMAIN made.left.default_values

(***************************************************************************)
(* Partial application                                                     *)
(***************************************************************************)
(* the fixed names that are inputs of the pipeline *)
FixedInputs == (DOMAIN made.names_to_fix) \cap pipe.input_names

(* the calls on the fixed pipeline: keyword arguments without the fixed names *)
CallsWithout(S) == {kwargs \in KwArgs : (DOMAIN kwargs) \cap S = {}}

SameAsSupplied ==
    /\ made.err = NoErr
    /\ made.obj.input_names \cap FixedInputs = {}
    /\ \A kwargs \in CallsWithout(DOMAIN made.names_to_fix) :
          LET fixed == CallPipeline(made.obj, kwargs)
              supplied == CallPipeline(PipeObj,
                                       Merge(kwargs, Restrict(made.names_to_fix, FixedInputs)))
          IN  /\ fixed.err.kind = supplied.err.kind
              /\ fixed.result = supplied.result

(* C17 as stated: p.fix(n=v) for a pipeline input n is a pipeline without  *)
(* the input n, and a call on it with arguments A returns what the call    *)
(* on p with A and n=v returns, each step's fix closing the step over v.   *)
C17_Original ==
    (made.op = "fix" /\ FixedInputs # {}) => SameAsSupplied

DistinctStepNames ==
    \A i, j \in StepIdx : Steps[i].name = Steps[j].name => i = j

(* no default value gathered from the steps has been reset on the pipeline *)
DefaultsKept ==
    DOMAIN Graph(Steps, rio).default_values \subseteq DOMAIN pipe.default_values

(* the same for the pipelines whose steps have pairwise distinct names and *)
(* which still hold the default values of their steps                      *)
C17_DistinctNames ==
    (made.op = "fix" /\ FixedInputs # {} /\ DistinctStepNames /\ DefaultsKept) =>
        SameAsSupplied

(* a pipeline with two steps of one name was fixed, and a call on the      *)
(* result returns another mapping than the call on the pipeline itself     *)
C17_Witness ==
    /\ made.op = "fix"
    /\ made.err = NoErr
    /\ FixedInputs # {}
    /\ ~DistinctStepNames
    /\ \E kwargs \in CallsWithout(DOMAIN made.names_to_fix) :
          LET fixed == CallPipeline(made.obj, kwargs)
              supplied == CallPipeline(PipeObj,
                                       Merge(kwargs, Restrict(made.names_to_fix, FixedInputs)))
          IN  /\ fixed.err = NoErr
              /\ supplied.err = NoErr
              /\ fixed.result # supplied.result

(***************************************************************************)
(* apply_in_namespace                                                      *)
(***************************************************************************)
(* the step k has been applied in the namespace and has returned *)
Applied == pc = "running" /\ k \in StepIdx /\ k' = k + 1

(* the step received the entries of the namespace named by its inputs,     *)
(* and nothing under another name                                          *)
PassedInputs ==
    LET e == trace'[Len(trace')]
    IN  /\ DOMAIN e.inputs \subseteq InputsOf(k)
        /\ \A n \in (DOMAIN namespace) \cap InputsOf(k) : e.inputs[n] = namespace[n]

(* C18 as stated: apply_in_namespace passes to the callable only the       *)
(* entries named by its input_names, and every entry of the namespace      *)
(* whose name is not in input_names holds the same value afterwards.       *)
C18_Original ==
    [][Applied =>
          /\ PassedInputs
          /\ \A n \in (DOMAIN namespace) \ InputsOf(k) :
                n \in DOMAIN namespace' /\ namespace'[n] = namespace[n]]_vars

(* C18: apply_in_namespace passes to the callable only the entries named   *)
(* by its input_names; afterwards every entry whose name is not among the  *)
(* names the callable returned holds the same value, and every name the    *)
(* callable returned holds the returned value, whether or not the name     *)
(* is an input and whether or not the namespace held it.                   *)
C18_PassThrough ==
    [][Applied =>
          LET outputs == trace'[Len(trace')].outputs
          IN  /\ PassedInputs
              /\ DOMAIN namespace' = (DOMAIN namespace) \cup DOMAIN outputs
              /\ \A n \in (DOMAIN namespace) \ DOMAIN outputs :
                    namespace'[n] = namespace[n]
              /\ \A n \in DOMAIN outputs : namespace'[n] = outputs[n]]_vars

(* a step has overwritten an entry that an earlier step wrote and that is  *)
(* not one of its inputs                                                   *)
C18_Witness ==
    \E i \in 1..Len(trace) : \E j \in 1..(i - 1) :
        \E n \in (DOMAIN trace[i].outputs) \cap (DOMAIN trace[j].outputs) :
            /\ n \notin InputsOf(trace[i].step)
            /\ trace[i].outputs[n] # trace[j].outputs[n]
            /\ namespace[n] = trace[i].outputs[n]

(***************************************************************************)
(* Two interleaved invocations of one pipeline                             *)
(***************************************************************************)
(* C19: two invocations of the same pipeline object whose step executions  *)
(* are interleaved never read or write each other's namespace: for pure    *)
(* step functions each invocation returns, or raises, what it returns or   *)
(* raises when it runs alone with the same arguments.                      *)
C19_Isolated ==
    /\ pc = "done" => Alone(kw) = [err |-> NoErr, result |-> result]
    /\ (pc = "error" /\ target = 0) => Alone(kw).err = err
    /\ concurrent.pc = "done" =>
          Alone(concurrent.kw) = [err |-> NoErr, result |-> concurrent.result]
    /\ concurrent.pc = "error" => Alone(concurrent.kw).err = concurrent.err

(* both invocations have returned, a step of the second ran between two    *)
(* steps of the first, both wrote the same names and the results differ    *)
C19_Witness ==
    /\ pc = "done"
    /\ concurrent.pc = "done"
    /\ concurrent.overlap
    /\ Len(funcs) >= 2
    /\ DOMAIN result = DOMAIN concurrent.result
    /\ DOMAIN result # {}
    /\ \A n \in DOMAIN result : result[n] # concurrent.result[n]

(***************************************************************************)
(* The record of a call                                                    *)
(***************************************************************************)
RecordMade == pc = "done" /\ target # 0 /\ trace # <<>> /\ trace[1].style = "record"

(* what the wrapped function produced for the i-th output name *)
ValueFor(raw, names, i) ==
    IF raw.kind = "dict" THEN raw.map[names[i]] ELSE raw.vals[i]

HasValueFor(raw, names, i) ==
    IF raw.kind = "dict" THEN names[i] \in DOMAIN raw.map
    ELSE i <= Len(raw.vals)

(* every input name holds the value the wrapped function received for it,  *)
(* unless an output has the same name                                      *)
InputsRecorded ==
    LET f == objs[target]
    IN  \A n \in Range(f.input_names) :
            /\ n \in DOMAIN result
            /\ n \in DOMAIN trace[1].inputs
            /\ n \notin DOMAIN trace[1].outputs => result[n] = trace[1].inputs[n]

FitsOutputNames ==
    LET f == objs[target]
        raw == trace[1].raw
    IN  IF raw.kind = "dict" THEN DOMAIN raw.map = Range(f.output_names)
        ELSE IF raw.kind = "none" THEN f.output_names = <<>>
        ELSE Len(f.output_names) = 1 \/ Len(raw.vals) >= Len(f.output_names)

C20_WitnessLater ==
    /\ RecordMade
    /\ ~trace[1].first
    /\ \E n \in Range(objs[target].output_names) : n \notin DOMAIN result

(***************************************************************************)
(* The inference of the output names                                       *)
(***************************************************************************)
(* the names the first result of a callable called nm stands for *)
InferredFrom(nm, sh, names) ==
    IF sh.kind = "none" THEN names = <<>>
    ELSE IF sh.kind = "dict"
    THEN Range(names) = sh.keys /\ Len(names) = Cardinality(sh.keys)
    ELSE IF sh.kind = "tuple" /\ sh.arity > 1
    THEN /\ Len(names) = sh.arity
         /\ \A i \in 1..sh.arity : names[i] = nm \o "[" \o ToString(i - 1) \o "]"
    ELSE names = <<nm>>

(* C21: when a callable with unknown output_names is first invoked, the    *)
(* inferred names are the empty list for a None result, the keys of a      *)
(* mapping, name[0] .. name[k-1] for a tuple of length k > 1 and the       *)
(* name of the callable for any other result; every later invocation       *)
(* leaves the same names.                                                  *)
C21_InferredNames ==
    [][\A p \in PoolIds :
          /\ (~objs[p].known /\ target' = p /\ trace' # <<>>) =>
                /\ objs'[p].known
                /\ InferredFrom(objs[p].name, trace'[1].shape, objs'[p].output_names)
          /\ (objs[p].known /\ ~GuessPool[p].known) =>
                /\ objs'[p].known
                /\ objs'[p].output_names = objs[p].output_names]_vars

(* a callable whose names were inferred from a tuple of three elements     *)
(* has returned a mapping at a later call and reports the inferred names   *)
C21_Witness ==
    /\ DirectCallEntry
    /\ pc = "done"
    /\ ~trace[1].first
    /\ trace[1].shape.kind = "dict"
    /\ objs[target].output_names = <<"c[0]", "c[1]", "c[2]">>

(***************************************************************************)
(* Labelling a labelled function                                           *)
(***************************************************************************)
(* C22: wrapping an already-labelled callable returns the identical        *)
(* object with its name, input_names, output_names, default_values and     *)
(* has-never-run state unchanged, after any number of repeated wrappings.  *)
C22_Idempotent ==
    [][(made'.op = "label" /\ pc = "idle" /\ pc' = "idle" /\ target' = 0) =>
          /\ made'.ref = made'.of
          /\ \A p \in PoolIds :
                /\ objs'[p].name = objs[p].name
                /\ objs'[p].input_names = objs[p].input_names
                /\ objs'[p].known = objs[p].known
                /\ objs'[p].output_names = objs[p].output_names
                /\ objs'[p].default_values = objs[p].default_values
                /\ objs'[p].never_run = objs[p].never_run]_vars

(* a function that has run and whose names were inferred has been          *)
(* labelled twice more and still holds them                                *)
C22_Witness ==
    /\ made.op = "label"
    /\ made.repeated
    /\ made.ref = made.of
    /\ ~Pool[made.ref].known
    /\ objs[made.ref].known
    /\ ~objs[made.ref].never_run

(***************************************************************************)
(* The default values of a LabelledPipeline                                *)
(***************************************************************************)
(* the steps that require n while no earlier step produces it *)
ExternalSteps(n) ==
    {i \in StepIdx : n \in InputsOf(i) /\ \A j \in 1..(i - 1) : n \notin OutputsOf(j)}

FirstRequiring(n) == CHOOSE i \in ExternalSteps(n) : \A j \in ExternalSteps(n) : i <= j

(* those of them that declare a default for n *)
Declaring(n) == {i \in ExternalSteps(n) : n \in DOMAIN Steps[i].default_values}

LastDeclaring(n) == CHOOSE i \in Declaring(n) : \A j \in Declaring(n) : j <= i

(* C23 as stated: a pipeline input n has the default declared by the       *)
(* first step that requires it as an external input, when that step        *)
(* declares one; later steps neither replace it nor supply one.            *)
C23_Original ==
    impl = "pipeline" =>
        \A n \in pipe.input_names \ DOMAIN dvArg :
            LET f == Steps[FirstRequiring(n)]
            IN  IF n \in DOMAIN f.default_values
                THEN /\ n \in DOMAIN pipe.default_values
                     /\ pipe.default_values[n] = f.default_values[n]
                ELSE n \notin DOMAIN pipe.default_values

(* C23: a pipeline input n has the default declared by the last step, in   *)
(* order, that requires n as an external input and declares a default for  *)
(* it: a later such step replaces the default of an earlier one and        *)
(* supplies one when the first requiring step has none; n has no default   *)
(* when no such step declares one.  The default_values argument of the     *)
(* constructor overrides the steps.                                        *)
C23_LastDefault ==
    impl = "pipeline" =>
        /\ \A n \in pipe.input_names \ DOMAIN dvArg :
              IF Declaring(n) # {}
              THEN /\ n \in DOMAIN pipe.default_values
                   /\ pipe.default_values[n] = Steps[LastDeclaring(n)].default_values[n]
              ELSE n \notin DOMAIN pipe.default_values
        /\ \A n \in DOMAIN dvArg : pipe.default_values[n] = dvArg[n]

(* two steps require a name as an external input and declare different     *)
(* defaults for it: the pipeline has the default of the later one          *)
C23_Witness ==
    /\ impl = "pipeline"
    /\ \E n \in pipe.input_names \ DOMAIN dvArg :
          /\ Declaring(n) # {}
          /\ FirstRequiring(n) \in Declaring(n)
          /\ LastDeclaring(n) # FirstRequiring(n)
          /\ Steps[LastDeclaring(n)].default_values[n] #
                Steps[FirstRequiring(n)].default_values[n]
          /\ pipe.default_values[n] = Steps[LastDeclaring(n)].default_values[n]

(* the first step requiring a name declares no default and a later step    *)
(* supplies one                                                            *)
C23_WitnessSupplied ==
    /\ impl = "pipeline"
    /\ \E n \in pipe.input_names \ DOMAIN dvArg :
          /\ Declaring(n) # {}
          /\ FirstRequiring(n) \notin Declaring(n)
          /\ n \in DOMAIN pipe.default_values

(***************************************************************************)
(* The steps a fix on a pipeline is applied to                             *)
(***************************************************************************)
(* the fixed names the step i itself reads as external pipeline inputs *)
FixableAt(i) ==
    {n \in DOMAIN made.names_to_fix :
        n \in InputsOf(i) /\ \A j \in 1..(i - 1) : n \notin OutputsOf(j)}

StepFixedAsConsumed(i) ==
    made.obj.funcs[i] =
        IF FixableAt(i) = {} THEN Steps[i]
        ELSE FixStep(Steps[i], Restrict(made.names_to_fix, FixableAt(i)))

(* inputs and outputs are those resolved on the updated step list *)
Reresolved ==
    LET g == Graph(made.obj.funcs, rio)
    IN  /\ made.obj.input_names = g.pipe_inputs
        /\ made.obj.output_names = g.pipe_outputs

(* C24 as stated: pipeline.fix applies a step's fix with exactly the fixed  *)
(* names this step itself consumes as external pipeline inputs, leaves      *)
(* every step that consumes none of them untouched, and re-resolves inputs  *)
(* and outputs on the updated step list, for every step list.               *)
C24_Original ==
    (made.op = "fix" /\ made.err = NoErr) =>
        /\ Len(made.obj.funcs) = Len(funcs)
        /\ \A i \in StepIdx : StepFixedAsConsumed(i)
        /\ Reresolved

(* the same for the step lists whose steps have pairwise distinct names *)
C24_DistinctNames ==
    (made.op = "fix" /\ made.err = NoErr /\ DistinctStepNames) =>
        /\ Len(made.obj.funcs) = Len(funcs)
        /\ \A i \in StepIdx : StepFixedAsConsumed(i)
        /\ Reresolved

(* a step that reads a fixed name from an earlier step, not from the       *)
(* caller, has been closed over the fixed value                            *)
C24_Witness ==
    /\ made.op = "fix"
    /\ made.err = NoErr
    /\ \E i \in StepIdx :
          /\ FixableAt(i) = {}
          /\ made.obj.funcs[i] # Steps[i]
          /\ \E n \in DOMAIN made.names_to_fix : \E j \in 1..(i - 1) :
                n \in InputsOf(i) /\ n \in OutputsOf(j)

(***************************************************************************)
(* External inputs and intermediate names                                  *)
(***************************************************************************)
(* names produced by one step, consumed by a later step and excluded from  *)
(* output_names                                                            *)
PurelyIntermediate ==
    {n \in Produced \ pipe.output_names :
        \E i, j \in StepIdx : i < j /\ n \in OutputsOf(i) /\ n \in InputsOf(j)}

(* C25 as stated: no name in the resolved input_names is produced by one    *)
(* step, consumed by a later step and excluded from output_names.           *)
C25_Original == Built => pipe.input_names \cap PurelyIntermediate = {}

(* C25: a name produced by one step, consumed by a later step and excluded  *)
(* from output_names is in input_names exactly when some step reads it      *)
(* before any step has produced it: the caller supplies the value the       *)
(* pipeline then overwrites.  A name that every reading step finds          *)
(* produced by an earlier step is never in input_names.                     *)
C25_Classification ==
    Built =>
        /\ pipe.input_names \cap PurelyIntermediate =
              {n \in PurelyIntermediate : ExternalSteps(n) # {}}
        /\ \A n \in Produced : ExternalSteps(n) = {} => n \notin pipe.input_names

(* a pipeline input is overwritten by a step, read by a later step and is   *)
(* no output                                                                *)
C25_Witness ==
    /\ Built
    /\ \E n \in pipe.input_names \cap PurelyIntermediate :
          \E i, j \in StepIdx :
              /\ i < j
              /\ i \in ExternalSteps(n)
              /\ n \in OutputsOf(i)
              /\ n \in InputsOf(j)

(***************************************************************************)
(* The keys of default_values                                              *)
(***************************************************************************)
DefaultsAmongInputs(o) == DOMAIN o.default_values \subseteq o.input_names

(* the labelled functions and the constructed pipeline *)
ConstructedWithDefaultsAmongInputs ==
    /\ \A p \in PoolIds : DOMAIN objs[p].default_values \subseteq Range(objs[p].input_names)
    /\ impl = "pipeline" => DefaultsAmongInputs(pipe)

(* C26 as stated: every labelled callable or pipeline reachable through     *)
(* construction, set_default, reset_default, fix, hide and | composition    *)
(* has the keys of default_values among its input_names.                    *)
C26_Original ==
    /\ ConstructedWithDefaultsAmongInputs
    /\ (made # NoMade /\ made.op # "rename" /\ made.err = NoErr) =>
          DefaultsAmongInputs(made.obj)

(* the same without set_default *)
C26_OtherOperations ==
    /\ ConstructedWithDefaultsAmongInputs
    /\ (made # NoMade /\ made.op \notin {"rename", "set_default"} /\ made.err = NoErr) =>
          DefaultsAmongInputs(made.obj)

(* set_default has returned a pipeline with a default value for a name      *)
(* that is not one of its inputs, and every call of it is refused           *)
C26_Witness ==
    /\ made.op = "set_default"
    /\ made.err = NoErr
    /\ ~DefaultsAmongInputs(made.obj)
    /\ \A kwargs \in KwArgs : CallPipeline(made.obj, kwargs).err.kind = "unexpected"

(***************************************************************************)
(* A step that raises                                                      *)
(***************************************************************************)
(* the call of the step k has raised inside apply_in_namespace *)
StepRaised == pc = "running" /\ k \in StepIdx /\ pc' = "error"

Producers(n) == {i \in StepIdx : n \in OutputsOf(i)}

(* C28: with return_intermediate_outputs false, a name n is in the          *)
(* output_names resolved by LabelledPipeline._graph if and only if some     *)
(* step produces n and no step positioned strictly after the last producer  *)
(* of n lists n among its inputs.                                           *)
C28_FinalOutputs ==
    (impl = "pipeline" /\ ~rio) =>
        \A n \in Names \cup Produced \cup pipe.output_names :
            n \in pipe.output_names <=>
                /\ Producers(n) # {}
                /\ \A j \in StepIdx :
                      (\A i \in Producers(n) : i < j) => n \notin InputsOf(j)

(* a name consumed after an earlier producer and produced again by the      *)
(* consuming step is an output; a name consumed after its last producer     *)
(* is none                                                                  *)
C28_Witness ==
    /\ impl = "pipeline"
    /\ ~rio
    /\ \E n \in pipe.output_names : \E i, j \in Producers(n) :
          i < j /\ n \in InputsOf(j)
    /\ \E n \in Produced \ pipe.output_names : \E j \in StepIdx :
          n \in InputsOf(j) /\ \A i \in Producers(n) : i < j

(***************************************************************************)
(* The default values handed to the constructor by a composition           *)
(***************************************************************************)
(* the inputs resolved on the steps of left followed by the steps of right *)
ComposedInputs == Graph(ComposedSteps, FALSE).pipe_inputs

OutputNamesOf(o) == IF o.kind = "pipeline" THEN o.output_names ELSE Range(o.output_names)

(* C29 as stated: for successfully constructed operands, p | q succeeds:    *)
(* the merged default map never contains a name that is not a resolved      *)
(* input of the concatenated step list, and the assertion on the keys of    *)
(* the defaults never fails.                                                *)
C29_Original ==
    (made.op \in OrOps /\ KnownOperand(made.left) /\ KnownOperand(made.right)) =>
        /\ DOMAIN made.merged \subseteq ComposedInputs
        /\ made.err.kind # "AssertionError"

(* the same when every name produced inside the left operand is one of its  *)
(* output_names                                                             *)
C29_LeftKeepsAll ==
    (made.op \in OrOps /\ KnownOperand(made.left) /\ KnownOperand(made.right)
       /\ Computes(made.left) \subseteq OutputNamesOf(made.left)) =>
        /\ DOMAIN made.merged \subseteq ComposedInputs
        /\ made.err.kind # "AssertionError"

(* the right operand declares a default for a name that the left operand    *)
(* produces and consumes inside: the merged map holds it, the concatenated  *)
(* steps do not take it as an input and the constructor raises              *)
C29_Witness ==
    /\ made.op \in OrOps
    /\ made.err.kind = "AssertionError"
    /\ \E n \in DOMAIN made.merged :
          /\ n \notin ComposedInputs
          /\ n \in DOMAIN made.right.default_values
          /\ n \in Computes(made.left) \ OutputNamesOf(made.left)


(***************************************************************************)
(* C30                                                                     *)
(***************************************************************************)
BothConstruct ==
    /\ made.op = "pipeline | pipeline | pipeline"
    /\ made.left_first.err = NoErr
    /\ made.right_first.err = NoErr

SameSteps == made.left_first.obj.funcs = made.right_first.obj.funcs
SameInputNames == made.left_first.obj.input_names = made.right_first.obj.input_names
SameOutputNames == made.left_first.obj.output_names = made.right_first.obj.output_names
SameDefaultValues == made.left_first.obj.default_values = made.right_first.obj.default_values

(* C30: for pipelines p, q, r for which both groupings construct,          *)
(* (p | q) | r and p | (q | r) have the same step list, the same sets of   *)
(* input and output names and the same map of default values.              *)
C30_Original ==
    BothConstruct => SameSteps /\ SameInputNames /\ SameOutputNames /\ SameDefaultValues

(* the step list and the sets of names alone do not depend on the grouping *)
C30_SameStepsAndNames ==
    BothConstruct => SameSteps /\ SameInputNames /\ SameOutputNames

(* both groupings construct and give one input two different defaults *)
C30_Witness ==
    /\ BothConstruct
    /\ SameSteps /\ SameInputNames
    /\ \E n \in DOMAIN made.left_first.obj.default_values :
          /\ n \in DOMAIN made.right_first.obj.default_values
          /\ made.left_first.obj.default_values[n] # made.right_first.obj.default_values[n]

====
